---- MODULE Spec2Model ----
(***************************************************************************)
(* Model of the codec adapter and container layer of CompressAI-Vision:    *)
(*   - _distribute_parallel_work, the work splitter of a parallel encode   *)
(*   - HeaderWriter / HeaderReader, the container header                   *)
(*   - VTM.encode / VTM.decode, the bitstream assembler                    *)
(* (src/compressai_vision/codecs/std_codecs.py).                           *)
(***************************************************************************)
EXTENDS Integers, Sequences, FiniteSets, TLC

VARIABLES
    split_call,     \* arguments of one _distribute_parallel_work call
    split_ret,      \* its outcome: pending, returned (offsets, counts) or raised
    h_in,           \* header test: the SequenceInfo and FrameInfo records to write
    h_fd,           \* header test: the byte stream (BytesIO): data and read position
    h_written,      \* header test: what the writer has written so far
    h_reader,       \* header test: the HeaderReader object
    h_out,          \* header test: what the reader has returned so far
    cfg,            \* adapter: configuration fixed by VTM.__init__
    vtm,            \* adapter: the fields VTM.reset sets
    fs,             \* the files of the codec output directory: path -> content
    written,        \* history: path -> what the successful encode that wrote it put there
    ret,            \* outcome of the last encode or decode call
    calls,          \* number of calls made so far
    run,            \* one encode call in progress: position, locals, processes
    nm_call,        \* partial-file naming: final path, worker count, directory
    nm_ret,         \* its outcome: the worker paths and the concatenation command
    gc_call,        \* one get_encode_cmd call of a codec variant, as encode makes it
    gc_ret,         \* its outcome: pending, returned (a value) or raised
    scale           \* the bit depths along one encode and the decode of its container

split_vars == <<split_call, split_ret>>
header_vars == <<h_in, h_fd, h_written, h_reader, h_out>>
codec_vars == <<cfg, vtm, fs, written, ret, calls>>
step_vars == <<run>>
name_vars == <<nm_call, nm_ret>>
variant_vars == <<gc_call, gc_ret>>
scale_vars == <<scale>>
vars == <<split_vars, header_vars, codec_vars, step_vars, name_vars, variant_vars, scale_vars>>

(***************************************************************************)
(* Bounds of the model.                                                    *)
(***************************************************************************)
MaxFrames == 9
MaxWorkers == 4
MaxPeriod == 4
MaxHdrFrames == 2
MaxEncFrames == 6
MaxCalls == 3
MaxNameWorkers == 12
MaxBitDepth == 16

Min(a, b) == IF a <= b THEN a ELSE b

Last(s) == s[Len(s)]

(***************************************************************************)
(* _distribute_parallel_work (std_codecs.py:1046-1075).                    *)
(* The loop state is the tuple of the locals offsets, counts, offset and   *)
(* num_remaining; raised records a failed assert.                          *)
(***************************************************************************)
Raised == [status |-> "raised", offsets |-> <<>>, counts |-> <<>>]

LoopInit(num_frames) ==
    [raised |-> FALSE, offsets |-> <<>>, counts |-> <<>>,
     offset |-> 0, num_remaining |-> num_frames]

\* mutant: the "+1" of the chunk length is dropped
LoopBody_no_plus_one(st, intra_period) ==
    IF ~(st.num_remaining > 0)
    THEN [st EXCEPT !.raised = TRUE]
    ELSE LET count == Min(intra_period, st.num_remaining)
         IN  [raised |-> FALSE,
              offsets |-> Append(st.offsets, st.offset),
              counts |-> Append(st.counts, count),
              offset |-> st.offset + intra_period,
              num_remaining |-> st.num_remaining - intra_period]

\* mutant: the running offset advances by the chunk's frame count
LoopBody_advance_by_count(st, intra_period) ==
    IF ~(st.num_remaining > 0)
    THEN [st EXCEPT !.raised = TRUE]
    ELSE LET count == Min(intra_period + 1, st.num_remaining)
         IN  [raised |-> FALSE,
              offsets |-> Append(st.offsets, st.offset),
              counts |-> Append(st.counts, count),
              offset |-> st.offset + count,
              num_remaining |-> st.num_remaining - count]

\* mutant: the assert on num_remaining is missing
LoopBody_no_assert(st, intra_period) ==
    LET count == Min(intra_period + 1, st.num_remaining)
    IN  [raised |-> FALSE,
         offsets |-> Append(st.offsets, st.offset),
         counts |-> Append(st.counts, count),
         offset |-> st.offset + intra_period,
         num_remaining |-> st.num_remaining - intra_period]

\* one iteration of "for _ in range(num_workers)" (lines 1061-1071)
LoopBody(st, intra_period) ==
    IF ~(st.num_remaining > 0)
    THEN [st EXCEPT !.raised = TRUE]
    ELSE LET count == Min(intra_period + 1, st.num_remaining)
         IN  [raised |-> FALSE,
              offsets |-> Append(st.offsets, st.offset),
              counts |-> Append(st.counts, count),
              offset |-> st.offset + intra_period,
              num_remaining |-> st.num_remaining - intra_period]

RECURSIVE Loop(_, _, _)
Loop(k, st, intra_period) ==
    IF k <= 0 \/ st.raised
    THEN st
    ELSE Loop(k - 1, LoopBody(st, intra_period), intra_period)

\* mutant: the final assert offsets[-1] + counts[-1] == num_frames is missing
_distribute_parallel_work_no_final_assert(num_frames, num_workers, intra_period) ==
    LET st == Loop(num_workers, LoopInit(num_frames), intra_period)
    IN  IF st.raised THEN Raised
        ELSE IF Len(st.offsets) = 0 THEN Raised
        ELSE [status |-> "returned", offsets |-> st.offsets, counts |-> st.counts]

\* the whole function: the loop, then the final assert, then the return.
\* offsets[-1] of an empty list raises IndexError (num_workers <= 0).
_distribute_parallel_work(num_frames, num_workers, intra_period) ==
    LET st == Loop(num_workers, LoopInit(num_frames), intra_period)
    IN  IF st.raised THEN Raised
        ELSE IF Len(st.offsets) = 0 THEN Raised
        ELSE IF Last(st.offsets) + Last(st.counts) # num_frames THEN Raised
        ELSE [status |-> "returned", offsets |-> st.offsets, counts |-> st.counts]

(***************************************************************************)
(* Fixed-width binary fields (encdec_utils: write_uchars, write_uints,     *)
(* write_float32, read_uchars, read_uints, read_float32).  One byte order  *)
(* (big-endian) for every field; floats are IEEE-754 binary32.             *)
(* A Python float is modelled by an integer-valued double x, |x| < 2^31.   *)
(***************************************************************************)
Abs(x) == IF x < 0 THEN -x ELSE x

RECURSIVE FloorLog2(_)
FloorLog2(a) == IF a <= 1 THEN 0 ELSE 1 + FloorLog2(a \div 2)

uchar_bytes(v) == <<v>>

uint_bytes(v) ==
    <<v \div 16777216, (v \div 65536) % 256, (v \div 256) % 256, v % 256>>

uint_value(b) == b[1] * 16777216 + b[2] * 65536 + b[3] * 256 + b[4]

\* the 24-bit significand and the exponent of the binary32 nearest to a > 0
\* (round half to even)
float32_parts(a) ==
    LET e == FloorLog2(a)
    IN  IF e <= 23
        THEN [exp |-> e, sig |-> a * 2^(23 - e)]
        ELSE LET shift == e - 23
                 q == a \div 2^shift
                 r == a % 2^shift
                 half == 2^(shift - 1)
                 up == r > half \/ (r = half /\ q % 2 = 1)
                 q2 == IF up THEN q + 1 ELSE q
             IN  IF q2 = 16777216
                 THEN [exp |-> e + 1, sig |-> 8388608]
                 ELSE [exp |-> e, sig |-> q2]

float32_bytes(x) ==
    IF x = 0 THEN <<0, 0, 0, 0>>
    ELSE LET p == float32_parts(Abs(x))
             sign == IF x < 0 THEN 1 ELSE 0
             biased == p.exp + 127
             mant == p.sig - 8388608
         IN  <<sign * 128 + biased \div 2,
               (biased % 2) * 128 + mant \div 65536,
               (mant \div 256) % 256,
               mant % 256>>

float32_value(b) ==
    LET sign == b[1] \div 128
        biased == (b[1] % 128) * 2 + b[2] \div 128
        mant == (b[2] % 128) * 65536 + b[3] * 256 + b[4]
        e == biased - 127
        sig == 8388608 + mant
        mag == IF biased = 0 /\ mant = 0 THEN 0
               ELSE IF e >= 23 THEN sig * 2^(e - 23)
               ELSE sig \div 2^(23 - e)
    IN  IF sign = 1 THEN -mag ELSE mag

\* BytesIO(): an empty stream
EmptyStream == [data |-> <<>>, pos |-> 0]

\* fd.write(bytes) on a stream: append at the end
fd_write(fd, bytes) == [fd EXCEPT !.data = fd.data \o bytes]

\* fd.read(n): the next n bytes, fewer at the end of the stream
fd_read(fd, n) ==
    LET upto == Min(Len(fd.data), fd.pos + n)
    IN  [bytes |-> SubSeq(fd.data, fd.pos + 1, upto),
         fd |-> [fd EXCEPT !.pos = upto]]

\* fd.read(): everything left
fd_read_rest(fd) == SubSeq(fd.data, fd.pos + 1, Len(fd.data))

write_uchars(fd, values) ==
    fd_write(fd, uchar_bytes(values[1]))

write_uints(fd, values) ==
    IF Len(values) = 2
    THEN fd_write(fd, uint_bytes(values[1]) \o uint_bytes(values[2]))
    ELSE fd_write(fd, uint_bytes(values[1]))

write_float32(fd, values) ==
    fd_write(fd, float32_bytes(values[1]))

\* struct.unpack raises on a short buffer: ok = FALSE
read_uchars(fd) ==
    LET r == fd_read(fd, 1)
    IN  IF Len(r.bytes) < 1 THEN [ok |-> FALSE, value |-> 0, fd |-> r.fd]
        ELSE [ok |-> TRUE, value |-> r.bytes[1], fd |-> r.fd]

read_uint(fd) ==
    LET r == fd_read(fd, 4)
    IN  IF Len(r.bytes) < 4 THEN [ok |-> FALSE, value |-> 0, fd |-> r.fd]
        ELSE [ok |-> TRUE, value |-> uint_value(r.bytes), fd |-> r.fd]

read_float32(fd) ==
    LET r == fd_read(fd, 4)
    IN  IF Len(r.bytes) < 4 THEN [ok |-> FALSE, value |-> 0, fd |-> r.fd]
        ELSE [ok |-> TRUE, value |-> float32_value(r.bytes), fd |-> r.fd]

(***************************************************************************)
(* HeaderWriter (std_codecs.py:975-1007).                                  *)
(***************************************************************************)
\* mutant: width written before height
HeaderWriter_write_sequence_info_swapped(fd, sequence_info) ==
    write_uints(
        write_uints(
            write_uchars(fd, <<sequence_info.bitdepth>>),
            <<sequence_info.frame_size[2], sequence_info.frame_size[1]>>),
        <<sequence_info.num_frames>>)

HeaderWriter_write_sequence_info(fd, sequence_info) ==
    write_uints(
        write_uints(
            write_uchars(fd, <<sequence_info.bitdepth>>),
            sequence_info.frame_size),
        <<sequence_info.num_frames>>)

HeaderWriter_write_frame_info(fd, frame_info) ==
    write_float32(write_float32(fd, <<frame_info.minv>>), <<frame_info.maxv>>)

(***************************************************************************)
(* HeaderReader (std_codecs.py:1010-1043).  The object holds               *)
(* _sequence_info (<<>> for None) and _num_frames_read.                    *)
(***************************************************************************)
HeaderReader_init == [sequence_info |-> <<>>, num_frames_read |-> 0]

NoSequenceInfo == [bitdepth |-> 0, frame_size |-> <<0, 0>>, num_frames |-> 0]

HeaderReader_read_sequence_info(self, fd) ==
    LET b == read_uchars(fd)
        h == read_uint(b.fd)
        w == read_uint(h.fd)
        n == read_uint(w.fd)
        sequence_info == [bitdepth |-> b.value,
                          frame_size |-> <<h.value, w.value>>,
                          num_frames |-> n.value]
    IN  IF b.ok /\ h.ok /\ w.ok /\ n.ok
        THEN [ok |-> TRUE, value |-> sequence_info, fd |-> n.fd,
              self |-> [self EXCEPT !.sequence_info = <<sequence_info>>]]
        ELSE [ok |-> FALSE, value |-> NoSequenceInfo, fd |-> n.fd, self |-> self]

NoFrameInfo == [frame_id |-> 0, minv |-> 0, maxv |-> 0]

\* mutant: max read before min
HeaderReader_read_frame_info_swapped(self, fd) ==
    LET hi == read_float32(fd)
        lo == read_float32(hi.fd)
    IN  IF lo.ok /\ hi.ok
        THEN [ok |-> TRUE,
              value |-> [frame_id |-> self.num_frames_read,
                         minv |-> lo.value, maxv |-> hi.value],
              fd |-> lo.fd,
              self |-> [self EXCEPT !.num_frames_read = @ + 1]]
        ELSE [ok |-> FALSE, value |-> NoFrameInfo, fd |-> lo.fd, self |-> self]

HeaderReader_read_frame_info(self, fd) ==
    LET lo == read_float32(fd)
        hi == read_float32(lo.fd)
    IN  IF lo.ok /\ hi.ok
        THEN [ok |-> TRUE,
              value |-> [frame_id |-> self.num_frames_read,
                         minv |-> lo.value, maxv |-> hi.value],
              fd |-> hi.fd,
              self |-> [self EXCEPT !.num_frames_read = @ + 1]]
        ELSE [ok |-> FALSE, value |-> NoFrameInfo, fd |-> hi.fd, self |-> self]

(***************************************************************************)
(* VTM adapter (std_codecs.py:92-716), split-inference pipeline            *)
(* (remote_inference = False).                                             *)
(***************************************************************************)
\* the fields set by reset() (lines 194-199)
\* mutant: reset keeps the BytesIO buffer of the previous call
VTM_reset_keep_io_buffer(old) ==
    [header_reader |-> HeaderReader_init,
     frame_info_buffer |-> <<>>,
     temp_io_buffer |-> old.temp_io_buffer]

\* mutant: reset keeps the HeaderReader of the previous call
VTM_reset_keep_header_reader(old) ==
    [header_reader |-> IF "header_reader" \in DOMAIN old THEN old.header_reader
                       ELSE HeaderReader_init,
     frame_info_buffer |-> <<>>,
     temp_io_buffer |-> EmptyStream]

VTM_reset(old) ==
    [header_reader |-> HeaderReader_init,
     frame_info_buffer |-> <<>>,
     temp_io_buffer |-> EmptyStream]

\* files: a function from the existing paths to their content
NoFiles == [q \in {} |-> <<>>]

is_file(files, path) == path \in DOMAIN files

write_file(files, path, data) ==
    [q \in DOMAIN files \cup {path} |-> IF q = path THEN data ELSE files[q]]

unlink(files, path) == [q \in DOMAIN files \ {path} |-> files[q]]

RECURSIVE unlink_all(_, _)
unlink_all(files, paths) ==
    IF paths = <<>> THEN files
    ELSE unlink_all(unlink(files, Head(paths)), Tail(paths))

\* file_prefix (line 443): "{dir}/{name}_{W}x{H}_{fr}fps_{bitdepth}bit_p{chroma}"
file_prefix_of(config, frame_width, frame_height) ==
    [width |-> frame_width, height |-> frame_height,
     bitdepth |-> config.input_bitdepth]

\* "{file_prefix}.bin" (line 455)
bitstream_path_of(file_prefix) == [prefix |-> file_prefix, tail |-> ".bin", idx |-> 0]

\* "{file_prefix}_input.yuv" (line 444)
yuv_in_path_of(file_prefix) == [prefix |-> file_prefix, tail |-> "_input.yuv", idx |-> 0]

\* "{parent}/{stem}-part-{worker_idx:03d}{suffix}" (lines 311-314)
worker_bitstream_path_of(bitstream_path, worker_idx) ==
    [prefix |-> bitstream_path.prefix, tail |-> "-part.bin", idx |-> worker_idx]

\* "{codec_output_dir}/{stem}_tmp.bin" (line 613)
bitstream_path_tmp_of(bitstream_path) ==
    [prefix |-> bitstream_path.prefix, tail |-> "_tmp.bin", idx |-> 0]

\* "{dec_path}/{stem}_dec.yuv" (line 566)
yuv_dec_path_of(bitstream_path) ==
    [prefix |-> bitstream_path.prefix, tail |-> "_dec.yuv", idx |-> 0]

\* Python round(n / d) for n >= 0, d > 0: half to even
round_half_even(n, d) ==
    LET q == n \div d
        r == n % d
    IN  IF 2 * r < d THEN q
        ELSE IF 2 * r > d THEN q + 1
        ELSE IF q % 2 = 0 THEN q ELSE q + 1

NoCmds == [ok |-> FALSE, cmds |-> <<>>]

\* get_encode_cmd lines 243-244: output_bitdepth 0 stands for "as the input"
\* in the --InternalBitDepth argument of the command
InternalBitDepth_of(config) ==
    IF config.output_bitdepth = 0 THEN config.input_bitdepth
    ELSE config.output_bitdepth

\* _parallel_encode_cmd (lines 293-327); a command is reduced to its
\* --BitstreamFile, --FrameSkip and --FramesToBeEncoded arguments
VTM_parallel_encode_cmd(config, bitstream_path, nb_frames) ==
    LET num_workers == round_half_even(2 * nb_frames + config.intra_period,
                                       2 * config.intra_period)
        work == _distribute_parallel_work(nb_frames, num_workers, config.intra_period)
    IN  IF work.status # "returned" THEN NoCmds
        ELSE IF ~(num_workers < 1000) THEN NoCmds
        ELSE [ok |-> TRUE,
              cmds |-> [i \in 1..Len(work.offsets) |->
                          [BitstreamFile |-> worker_bitstream_path_of(bitstream_path, i - 1),
                           InternalBitDepth |-> InternalBitDepth_of(config),
                           FrameSkip |-> work.offsets[i],
                           FramesToBeEncoded |-> work.counts[i]]]]

\* get_encode_cmd (lines 211-291)
VTM_get_encode_cmd(config, bitstream_path, nb_frames) ==
    IF config.parallel_encoding = FALSE \/ nb_frames <= config.intra_period + 1
    THEN [ok |-> TRUE,
          cmds |-> <<[BitstreamFile |-> bitstream_path,
                      InternalBitDepth |-> InternalBitDepth_of(config),
                      FrameSkip |-> 0,
                      FramesToBeEncoded |-> nb_frames]>>]
    ELSE VTM_parallel_encode_cmd(config, bitstream_path, nb_frames)

\* the external encoder: an opaque bitstream for the frames it was given
encoder_output(cmd) == <<cmd.FrameSkip, cmd.FramesToBeEncoded>>

\* run_cmdline / run_cmdlines_parallel: every command runs to its end; a
\* command that exits 0 has written its output file
RECURSIVE run_encoders(_, _, _)
run_encoders(files, cmds, exit_ok) ==
    IF cmds = <<>> THEN files
    ELSE LET cmd == Head(cmds)
             after == IF Head(exit_ok)
                      THEN write_file(files, cmd.BitstreamFile, encoder_output(cmd))
                      ELSE files
         IN  run_encoders(after, Tail(cmds), Tail(exit_ok))

RECURSIVE sorted(_)
sorted(idxs) ==
    IF idxs = {} THEN <<>>
    ELSE LET m == CHOOSE x \in idxs : \A y \in idxs : x <= y
         IN  <<m>> \o sorted(idxs \ {m})

\* get_parcat_cmd (lines 329-345): sorted(glob("{stem}-part-*{suffix}"))
VTM_get_parcat_cmd(files, bitstream_path) ==
    LET found == {q \in DOMAIN files :
                     q.prefix = bitstream_path.prefix /\ q.tail = "-part.bin"}
        order == sorted({q.idx : q \in found})
    IN  [k \in 1..Len(order) |-> worker_bitstream_path_of(bitstream_path, order[k])]

\* the external concatenation tool: the listed files, appended in order
RECURSIVE parcat_output(_, _)
parcat_output(files, list_of_bitstreams) ==
    IF list_of_bitstreams = <<>> THEN <<>>
    ELSE files[Head(list_of_bitstreams)]
         \o parcat_output(files, Tail(list_of_bitstreams))

RECURSIVE write_frame_infos(_, _)
write_frame_infos(fd, frame_infos) ==
    IF frame_infos = <<>> THEN fd
    ELSE write_frame_infos(HeaderWriter_write_frame_info(fd, Head(frame_infos)),
                           Tail(frame_infos))

NoRet ==
    [op |-> "none", status |-> "none", phase |-> "idle",
     bitstream |-> bitstream_path_of(file_prefix_of([input_bitdepth |-> 0], 0, 0)),
     nb_frames |-> 0, frame_size |-> <<0, 0>>, num_cmds |-> 0,
     inner |-> <<>>, sequence_info |-> <<>>, frame_infos |-> <<>>,
     tmp_written |-> FALSE, tmp |-> <<>>, source |-> <<>>, rec_frames |-> 0,
     reads_at_entry |-> 0]

\* the history entries of the paths that the external tools have overwritten
forget(history, paths) == [q \in DOMAIN history \ paths |-> history[q]]

\* the call raised in the given phase: the adapter and the files stay as they
\* are at that point
raised_in(m, phase) == [m EXCEPT !.ret.status = "raised", !.ret.phase = phase]

running(m) == m.ret.status = "running"

(***************************************************************************)
(* VTM.encode (lines 371-533) with remote_inference = False, statement by  *)
(* statement.  m holds the locals of the call and the adapter and files.   *)
(*   nb_frames, frame_height, frame_width: the shape of the packed frames  *)
(*   exit_ok[i]: the i-th encoder process exits 0;  parcat_ok: so does     *)
(*   the concatenation tool                                                *)
(***************************************************************************)
\* lines 391-453: reset, the frame infos of the dataset range, the yuv input
encode_convert(config, adapter, files, history, nb_frames, frame_height, frame_width) ==
    LET file_prefix == file_prefix_of(config, frame_width, frame_height)
        frame_info == [minv |-> config.min_max_dataset[1],
                       maxv |-> config.min_max_dataset[2]]
    IN  [config |-> config,
         vtm |-> [VTM_reset(adapter) EXCEPT
                     !.frame_info_buffer = @ \o [k \in 1..nb_frames |-> frame_info]],
         fs |-> write_file(files, yuv_in_path_of(file_prefix),
                           [frames |-> nb_frames,
                            frame_bytes |-> frame_width * frame_height * 2]),
         written |-> history,
         yuv_in_path |-> yuv_in_path_of(file_prefix),
         cmds |-> <<>>,
         ret |-> [NoRet EXCEPT !.op = "encode", !.status = "running",
                               !.bitstream = bitstream_path_of(file_prefix),
                               !.nb_frames = nb_frames,
                               !.frame_size = <<frame_height, frame_width>>]]

\* lines 455-469
encode_get_cmds(m) ==
    LET got == VTM_get_encode_cmd(m.config, m.ret.bitstream, m.ret.nb_frames)
    IN  IF ~got.ok THEN raised_in(m, "command")
        ELSE [m EXCEPT !.cmds = got.cmds, !.ret.num_cmds = Len(got.cmds)]

\* lines 471-477: run_cmdlines_parallel or run_cmdline
encode_dispatch(m, exit_ok) ==
    IF ~running(m) THEN m
    ELSE LET outputs == {m.cmds[i].BitstreamFile :
                            i \in {j \in 1..Len(m.cmds) : exit_ok[j]}}
             ran == [m EXCEPT !.fs = run_encoders(m.fs, m.cmds, exit_ok),
                              !.written = forget(m.written, outputs)]
         IN  IF \A i \in 1..Len(m.cmds) : exit_ok[i]
             THEN ran
             ELSE raised_in(ran, "encode")

\* mutant: the partial files are removed when stash_outputs is false
encode_parcat_unlink_when_not_stash(m, parcat_ok) ==
    IF ~running(m) \/ ~(Len(m.cmds) > 1) THEN m
    ELSE IF ~parcat_ok THEN raised_in(m, "concatenate")
    ELSE LET list_of_bitstreams == VTM_get_parcat_cmd(m.fs, m.ret.bitstream)
             cat == write_file(m.fs, m.ret.bitstream,
                               parcat_output(m.fs, list_of_bitstreams))
         IN  [m EXCEPT !.fs = IF ~m.config.stash_outputs
                               THEN unlink_all(cat, list_of_bitstreams)
                               ELSE cat,
                       !.written = forget(m.written, {m.ret.bitstream})]

\* lines 479-485: concatenation of the partial bitstreams
encode_parcat(m, parcat_ok) ==
    IF ~running(m) \/ ~(Len(m.cmds) > 1) THEN m
    ELSE IF ~parcat_ok THEN raised_in(m, "concatenate")
    ELSE LET list_of_bitstreams == VTM_get_parcat_cmd(m.fs, m.ret.bitstream)
             cat == write_file(m.fs, m.ret.bitstream,
                               parcat_output(m.fs, list_of_bitstreams))
         IN  [m EXCEPT !.fs = IF m.config.stash_outputs
                               THEN unlink_all(cat, list_of_bitstreams)
                               ELSE cat,
                       !.written = forget(m.written, {m.ret.bitstream})]

\* lines 487-489
encode_assert_created(m) ==
    IF ~running(m) THEN m
    ELSE IF ~is_file(m.fs, m.ret.bitstream) THEN raised_in(m, "concatenate")
    ELSE m

\* mutant: the header is written after the inner bitstream
container_bytes_header_last(pre_info_bitstream, inner_codec_bitstream) ==
    inner_codec_bitstream \o pre_info_bitstream

\* bitstream = pre_info_bitstream + inner_codec_bitstream (line 509)
container_bytes(pre_info_bitstream, inner_codec_bitstream) ==
    pre_info_bitstream \o inner_codec_bitstream

\* lines 494-498
\* mutant: frame_size recorded as (width, height)
sequence_info_of_width_first(m) ==
    [bitdepth |-> m.config.output_bitdepth,
     frame_size |-> <<m.ret.frame_size[2], m.ret.frame_size[1]>>,
     num_frames |-> m.ret.nb_frames]

sequence_info_of(m) ==
    [bitdepth |-> m.config.output_bitdepth,
     frame_size |-> m.ret.frame_size,
     num_frames |-> m.ret.nb_frames]

\* lines 503-506: the header goes to the adapter's BytesIO buffer
encode_write_header(m) ==
    IF ~running(m) THEN m
    ELSE IF sequence_info_of(m).num_frames # Len(m.vtm.frame_info_buffer)
        THEN raised_in(m, "header-write")
    ELSE IF sequence_info_of(m).bitdepth \notin 0..255
        THEN raised_in(m, "header-write")
    ELSE [m EXCEPT !.vtm.temp_io_buffer =
                       write_frame_infos(
                           HeaderWriter_write_sequence_info(@, sequence_info_of(m)),
                           m.vtm.frame_info_buffer),
                   !.ret.inner = m.fs[m.ret.bitstream],
                   !.ret.sequence_info = <<sequence_info_of(m)>>,
                   !.ret.frame_infos = m.vtm.frame_info_buffer]

\* lines 508-515 and the return
encode_finalize(m) ==
    IF ~running(m) THEN m
    ELSE LET bitstream == container_bytes(m.vtm.temp_io_buffer.data, m.ret.inner)
             stored == write_file(m.fs, m.ret.bitstream, bitstream)
         IN  [m EXCEPT !.fs = IF m.config.dump_yuv_input THEN stored
                               ELSE unlink(stored, m.yuv_in_path),
                       !.written = write_file(@, m.ret.bitstream,
                                      [num_frames |-> m.ret.nb_frames,
                                       frame_size |-> m.ret.frame_size,
                                       bitdepth |-> m.config.output_bitdepth,
                                       min_max |-> m.config.min_max_dataset,
                                       inner |-> m.ret.inner]),
                       !.ret.status = "returned",
                       !.ret.phase = "finalized"]

VTM_encode(config, adapter, files, history, nb_frames, frame_height, frame_width, exit_ok, parcat_ok) ==
    encode_finalize(
      encode_write_header(
        encode_assert_created(
          encode_parcat(
            encode_dispatch(
              encode_get_cmds(
                encode_convert(config, adapter, files, history,
                               nb_frames, frame_height, frame_width)),
              exit_ok),
            parcat_ok))))

(***************************************************************************)
(* VTM.decode (lines 535-713) with remote_inference = False.               *)
(*   dec_ok: the decoder process exits 0;  dec_delta: the number of frames *)
(*   it wrote, relative to the num_frames of the header                    *)
(***************************************************************************)
\* the list comprehension of lines 619-622: n calls of read_frame_info
RECURSIVE read_frame_infos(_, _, _)
read_frame_infos(reader, fd, n) ==
    IF n <= 0 THEN [ok |-> TRUE, values |-> <<>>, fd |-> fd, self |-> reader]
    ELSE LET one == HeaderReader_read_frame_info(reader, fd)
         IN  IF ~one.ok
             THEN [ok |-> FALSE, values |-> <<>>, fd |-> one.fd, self |-> one.self]
             ELSE [read_frame_infos(one.self, one.fd, n - 1)
                      EXCEPT !.values = <<one.value>> \o @]

\* math.isclose(a, b, rel_tol=1e-4, abs_tol=1e-4) on integer-valued floats:
\* |a - b| <= max(1e-4 * max(|a|, |b|), 1e-4)
Max(a, b) == IF a >= b THEN a ELSE b

isclose(a, b) == Abs(a - b) <= Max(Abs(a), Abs(b)) \div 10000

\* mutant: only minv is compared
range_matches_minv_only(frame_infos, minv, maxv) ==
    \A k \in 1..Len(frame_infos) : isclose(frame_infos[k].minv, minv)

\* the condition of the assert of lines 665-669
range_matches(frame_infos, minv, maxv) ==
    \A k \in 1..Len(frame_infos) :
        /\ isclose(frame_infos[k].minv, minv)
        /\ isclose(frame_infos[k].maxv, maxv)

\* lines 556-566 and 613-615: reset, the paths, the bitstream file opened
decode_open(config, adapter, files, history, bitstream_path) ==
    LET m == [config |-> config,
              vtm |-> VTM_reset(adapter),
              fs |-> files,
              written |-> history,
              bitstream_fd |-> EmptyStream,
              ret |-> [NoRet EXCEPT !.op = "decode", !.status = "running",
                                    !.bitstream = bitstream_path,
                                    !.reads_at_entry =
                                        adapter.header_reader.num_frames_read,
                                    !.source = IF bitstream_path \in DOMAIN history
                                               THEN <<history[bitstream_path]>>
                                               ELSE <<>>]]
    IN  IF ~is_file(files, bitstream_path) THEN raised_in(m, "open")
        ELSE [m EXCEPT !.bitstream_fd = [data |-> files[bitstream_path], pos |-> 0]]

\* line 618
decode_read_sequence_info(m) ==
    IF ~running(m) THEN m
    ELSE LET si == HeaderReader_read_sequence_info(m.vtm.header_reader, m.bitstream_fd)
         IN  IF ~si.ok THEN raised_in(m, "header-read")
             ELSE [m EXCEPT !.vtm.header_reader = si.self,
                            !.bitstream_fd = si.fd,
                            !.ret.sequence_info = <<si.value>>]

\* mutant: one FrameInfo record is read whatever num_frames says
decode_read_frame_infos_one(m) ==
    IF ~running(m) THEN m
    ELSE LET fi == read_frame_infos(m.vtm.header_reader, m.bitstream_fd, 1)
         IN  IF ~fi.ok
             THEN raised_in([m EXCEPT !.vtm.header_reader = fi.self], "header-read")
             ELSE [m EXCEPT !.vtm.header_reader = fi.self,
                            !.bitstream_fd = fi.fd,
                            !.ret.frame_infos = fi.values]

\* lines 619-622
decode_read_frame_infos(m) ==
    IF ~running(m) THEN m
    ELSE LET fi == read_frame_infos(m.vtm.header_reader, m.bitstream_fd,
                                    m.ret.sequence_info[1].num_frames)
         IN  IF ~fi.ok
             THEN raised_in([m EXCEPT !.vtm.header_reader = fi.self], "header-read")
             ELSE [m EXCEPT !.vtm.header_reader = fi.self,
                            !.bitstream_fd = fi.fd,
                            !.ret.frame_infos = fi.values]

\* lines 627-629: the rest of the container goes to the temporary file
decode_write_tmp(m) ==
    IF ~running(m) THEN m
    ELSE [m EXCEPT !.fs = write_file(@, bitstream_path_tmp_of(m.ret.bitstream),
                                     fd_read_rest(m.bitstream_fd)),
                   !.ret.tmp_written = TRUE,
                   !.ret.tmp = fd_read_rest(m.bitstream_fd)]

\* int((bitdepth + 7) / 8) (line 650)
factor_of(bitdepth) == (bitdepth + 7) \div 8

frame_bytes_of(sequence_info) ==
    sequence_info.frame_size[2] * sequence_info.frame_size[1]
        * factor_of(sequence_info.bitdepth)

\* lines 631-641: the external decoder writes num_frames + dec_delta frames
\* of width * height samples, each sample on ceil(bitdepth / 8) bytes
decode_run_decoder(m, dec_ok, dec_delta) ==
    IF ~running(m) THEN m
    ELSE IF ~dec_ok THEN raised_in(m, "decode")
    ELSE [m EXCEPT !.fs = write_file(@, yuv_dec_path_of(m.ret.bitstream),
                              [frames |-> Max(0, m.ret.sequence_info[1].num_frames
                                                   + dec_delta),
                               frame_bytes |-> frame_bytes_of(m.ret.sequence_info[1])])]

\* lines 650-660: the frame count from the size of the decoded file;
\* torch.stack raises on an empty list
decode_read_frames(m) ==
    IF ~running(m) THEN m
    ELSE IF frame_bytes_of(m.ret.sequence_info[1]) = 0
        THEN raised_in(m, "reconstruct")
    ELSE LET yuv == m.fs[yuv_dec_path_of(m.ret.bitstream)]
             nb_frames == (yuv.frames * yuv.frame_bytes)
                              \div frame_bytes_of(m.ret.sequence_info[1])
         IN  IF nb_frames = 0 THEN raised_in(m, "reconstruct")
             ELSE [m EXCEPT !.ret.rec_frames = nb_frames]

\* lines 662-670
decode_check_range(m) ==
    IF ~running(m) THEN m
    ELSE IF ~range_matches(m.ret.frame_infos,
                           m.config.min_max_dataset[1], m.config.min_max_dataset[2])
        THEN raised_in(m, "range-check")
    ELSE m

\* lines 672-713: the features are rebuilt, the temporary files removed
decode_finalize(m) ==
    IF ~running(m) THEN m
    ELSE LET kept == IF m.config.dump_yuv_packing_dec THEN m.fs
                     ELSE unlink(m.fs, yuv_dec_path_of(m.ret.bitstream))
         IN  [m EXCEPT !.fs = IF m.config.stash_outputs
                               THEN unlink(kept, bitstream_path_tmp_of(m.ret.bitstream))
                               ELSE kept,
                       !.ret.status = "returned",
                       !.ret.phase = "finalized"]

VTM_decode(config, adapter, files, history, bitstream_path, dec_ok, dec_delta) ==
    decode_finalize(
      decode_check_range(
        decode_read_frames(
          decode_run_decoder(
            decode_write_tmp(
              decode_read_frame_infos(
                decode_read_sequence_info(
                  decode_open(config, adapter, files, history, bitstream_path)))),
            dec_ok, dec_delta))))

(***************************************************************************)
(* SpecSplit: every call of the work splitter within the bounds.           *)
(***************************************************************************)
Pending == [status |-> "pending", offsets |-> <<>>, counts |-> <<>>]

\* no header test in progress
HeaderIdle ==
    /\ h_in = [sequence_info |-> NoSequenceInfo, frame_infos |-> <<>>]
    /\ h_fd = EmptyStream
    /\ h_written = [sequence_info |-> FALSE, frame_infos |-> 0]
    /\ h_reader = HeaderReader_init
    /\ h_out = [sequence_info |-> <<>>, frame_infos |-> <<>>]

\* no adapter in use
\* no encode call is being stepped through
NoRun == [pc |-> "none", m |-> <<>>, procs |-> <<>>, phases |-> <<>>]

StepsIdle == run = NoRun

NamesIdle == nm_call = <<>> /\ nm_ret = <<>>

VariantsIdle == gc_call = <<>> /\ gc_ret = <<>>

\* no bit-depth trace in progress
NoScale == [pc |-> "none"]

ScaleIdle == scale = NoScale

CodecIdle ==
    /\ cfg = [parallel_encoding |-> FALSE]
    /\ vtm = VTM_reset([temp_io_buffer |-> EmptyStream])
    /\ fs = NoFiles
    /\ written = NoFiles
    /\ ret = NoRet
    /\ calls = 0

SplitIdle ==
    /\ split_call = [num_frames |-> 1, num_workers |-> 1, intra_period |-> 1]
    /\ split_ret = Pending

InitSplit ==
    /\ split_call \in [num_frames : 1..MaxFrames,
                       num_workers : 0..MaxWorkers,
                       intra_period : 1..MaxPeriod]
    /\ split_ret = Pending
    /\ HeaderIdle
    /\ CodecIdle
    /\ StepsIdle
    /\ NamesIdle
    /\ VariantsIdle
    /\ ScaleIdle

CallDistribute ==
    /\ split_ret.status = "pending"
    /\ split_ret' = _distribute_parallel_work(split_call.num_frames,
                                             split_call.num_workers,
                                             split_call.intra_period)
    /\ UNCHANGED <<scale_vars, name_vars, variant_vars, step_vars, split_call, header_vars, codec_vars>>

NextSplit == CallDistribute

SpecSplit == InitSplit /\ [][NextSplit]_vars

(***************************************************************************)
(* SpecHeader: a header is written to a stream with HeaderWriter, as       *)
(* VTM.encode does (lines 503-506), and read back with a fresh             *)
(* HeaderReader, as VTM.decode does (lines 618-622).                       *)
(***************************************************************************)
BitDepths == {1, 8, 10, 16}
FrameSizes == {<<64, 64>>, <<1080, 1920>>, <<16909060, 3>>}
\* (minv, maxv) pairs; 16777217, 16777219 and 33554434 are no binary32 values
Ranges == {<<-20, 20>>, <<0, 1>>, <<-16777217, 16777219>>, <<-3, 33554434>>}

FrameInfoOf(r) == [minv |-> r[1], maxv |-> r[2]]

InitHeader ==
    /\ SplitIdle
    /\ CodecIdle
    /\ StepsIdle
    /\ NamesIdle
    /\ VariantsIdle
    /\ ScaleIdle
    /\ \E n \in 1..MaxHdrFrames :
         \E b \in BitDepths, sz \in FrameSizes, rs \in [1..n -> Ranges] :
            h_in = [sequence_info |-> [bitdepth |-> b, frame_size |-> sz,
                                       num_frames |-> n],
                    frame_infos |-> [k \in 1..n |-> FrameInfoOf(rs[k])]]
    /\ h_fd = EmptyStream
    /\ h_written = [sequence_info |-> FALSE, frame_infos |-> 0]
    /\ h_reader = HeaderReader_init
    /\ h_out = [sequence_info |-> <<>>, frame_infos |-> <<>>]

AllWritten ==
    /\ h_written.sequence_info
    /\ h_written.frame_infos = Len(h_in.frame_infos)

WriteSequenceInfo ==
    /\ ~h_written.sequence_info
    /\ h_fd' = HeaderWriter_write_sequence_info(h_fd, h_in.sequence_info)
    /\ h_written' = [h_written EXCEPT !.sequence_info = TRUE]
    /\ UNCHANGED <<scale_vars, name_vars, variant_vars, step_vars, split_vars, codec_vars, h_in, h_reader, h_out>>

WriteFrameInfo ==
    /\ h_written.sequence_info
    /\ h_written.frame_infos < Len(h_in.frame_infos)
    /\ h_fd' = HeaderWriter_write_frame_info(
                   h_fd, h_in.frame_infos[h_written.frame_infos + 1])
    /\ h_written' = [h_written EXCEPT !.frame_infos = @ + 1]
    /\ UNCHANGED <<scale_vars, name_vars, variant_vars, step_vars, split_vars, codec_vars, h_in, h_reader, h_out>>

ReadSequenceInfo ==
    /\ AllWritten
    /\ h_out.sequence_info = <<>>
    /\ LET r == HeaderReader_read_sequence_info(h_reader, h_fd)
       IN  /\ r.ok
           /\ h_fd' = r.fd
           /\ h_reader' = r.self
           /\ h_out' = [h_out EXCEPT !.sequence_info = <<r.value>>]
    /\ UNCHANGED <<scale_vars, name_vars, variant_vars, step_vars, split_vars, codec_vars, h_in, h_written>>

ReadFrameInfo ==
    /\ h_out.sequence_info # <<>>
    /\ Len(h_out.frame_infos) < h_out.sequence_info[1].num_frames
    /\ LET r == HeaderReader_read_frame_info(h_reader, h_fd)
       IN  /\ r.ok
           /\ h_fd' = r.fd
           /\ h_reader' = r.self
           /\ h_out' = [h_out EXCEPT !.frame_infos = Append(@, r.value)]
    /\ UNCHANGED <<scale_vars, name_vars, variant_vars, step_vars, split_vars, codec_vars, h_in, h_written>>

NextHeader ==
    \/ WriteSequenceInfo
    \/ WriteFrameInfo
    \/ ReadSequenceInfo
    \/ ReadFrameInfo

SpecHeader == InitHeader /\ [][NextHeader]_vars

(***************************************************************************)
(* Properties of the container header (checked under SpecHeader).          *)
(***************************************************************************)
ReadBack ==
    /\ h_out.sequence_info # <<>>
    /\ Len(h_out.frame_infos) = h_in.sequence_info.num_frames

\* x is exactly a binary32 value: at most 24 significant bits
IsFloat32(x) ==
    Abs(x) < 16777216 \/ Abs(x) % 2^(FloorLog2(Abs(x)) - 23) = 0

\* y is a binary32 value nearest to x (one ulp is at most 2^8 below 2^32)
IsNearestFloat32(y, x) ==
    /\ IsFloat32(y)
    /\ \A z \in (x - 256)..(x + 256) : IsFloat32(z) => Abs(z - x) >= Abs(y - x)

RECURSIVE FrameInfoLayout(_)
FrameInfoLayout(frame_infos) ==
    IF frame_infos = <<>> THEN <<>>
    ELSE float32_bytes(Head(frame_infos).minv)
         \o float32_bytes(Head(frame_infos).maxv)
         \o FrameInfoLayout(Tail(frame_infos))

\* bit depth, height, width, frame count, then per frame min then max
HeaderLayout ==
    uchar_bytes(h_in.sequence_info.bitdepth)
    \o uint_bytes(h_in.sequence_info.frame_size[1])
    \o uint_bytes(h_in.sequence_info.frame_size[2])
    \o uint_bytes(h_in.sequence_info.num_frames)
    \o FrameInfoLayout(h_in.frame_infos)

\* C6 (as stated): reading back what was written returns the same values field
\* for field, for every SequenceInfo and every sequence of FrameInfo records.
C6_ExactRoundTrip ==
    ReadBack =>
        /\ h_out.sequence_info[1] = h_in.sequence_info
        /\ \A k \in 1..Len(h_out.frame_infos) :
              /\ h_out.frame_infos[k].minv = h_in.frame_infos[k].minv
              /\ h_out.frame_infos[k].maxv = h_in.frame_infos[k].maxv

\* C6 (amended): the bytes are laid out bit depth, height, width, frame count,
\* then per frame min then max; reading them back returns bit depth, height,
\* width and frame count unchanged and every minv and maxv as the 32-bit float
\* nearest to the written value, which is the written value itself whenever
\* that is a 32-bit float, and consumes exactly the header bytes.
C6_RoundTripToFloat32 ==
    /\ AllWritten => h_fd.data = HeaderLayout
    /\ ReadBack =>
        /\ h_out.sequence_info[1] = h_in.sequence_info
        /\ h_fd.pos = Len(h_fd.data)
        /\ \A k \in 1..Len(h_out.frame_infos) :
              /\ IsNearestFloat32(h_out.frame_infos[k].minv, h_in.frame_infos[k].minv)
              /\ IsNearestFloat32(h_out.frame_infos[k].maxv, h_in.frame_infos[k].maxv)
              /\ IsFloat32(h_in.frame_infos[k].minv) =>
                    h_out.frame_infos[k].minv = h_in.frame_infos[k].minv
              /\ IsFloat32(h_in.frame_infos[k].maxv) =>
                    h_out.frame_infos[k].maxv = h_in.frame_infos[k].maxv

C6_Witness ==
    /\ ReadBack
    /\ h_in.sequence_info.num_frames = 2
    /\ h_in.sequence_info.frame_size = <<1080, 1920>>
    /\ h_in.frame_infos[1] = [minv |-> -20, maxv |-> 20]
    /\ h_out.frame_infos[1].minv = -20 /\ h_out.frame_infos[1].maxv = 20
    /\ h_in.frame_infos[2] = [minv |-> -16777217, maxv |-> 16777219]
    /\ h_out.frame_infos[2].minv = -16777216 /\ h_out.frame_infos[2].maxv = 16777220

(***************************************************************************)
(* SpecCodec: adapters are constructed over one codec output directory and *)
(* encode and decode in any order; the external encoder, concatenation     *)
(* tool and decoder succeed or fail as they please.                        *)
(***************************************************************************)
IntraPeriods == {2}
InputBitDepths == {10}
\* 0: "same as the input bit depth" (get_encode_cmd default, line 223)
OutputBitDepths == {0, 10}
\* dataset (min, max) ranges: 20002 is within the 1e-4 tolerance of 20000
\* and of 20003, 20003 is not within that of 20000; 16777217 = 2^24 + 1 is a
\* Python float that no 32-bit float represents
DatasetRanges ==
    {<<-20000, 20000>>, <<-20000, 20002>>, <<-20000, 20003>>, <<-20000, 16777217>>}
FrameDims == {<<4, 6>>}

Configs ==
    [parallel_encoding : BOOLEAN,
     stash_outputs : BOOLEAN,
     intra_period : IntraPeriods,
     input_bitdepth : InputBitDepths,
     output_bitdepth : OutputBitDepths,
     min_max_dataset : DatasetRanges,
     dump_yuv_input : {FALSE},
     dump_yuv_packing_dec : {FALSE}]

FreshAdapter == VTM_reset([temp_io_buffer |-> EmptyStream])

\* the first adapter is built for the dataset of range FirstRange; Construct
\* brings in the other ranges
FirstRange == <<-20000, 20000>>

\* the configurations explored: every combination at an explicit output bit
\* depth, and the sequential ones at output_bitdepth = 0
StartConfigs ==
    {c \in Configs : c.min_max_dataset = FirstRange
                      /\ (c.output_bitdepth = 0 => ~c.parallel_encoding)}

InitCodec ==
    /\ SplitIdle
    /\ HeaderIdle
    /\ StepsIdle
    /\ NamesIdle
    /\ VariantsIdle
    /\ ScaleIdle
    /\ cfg \in StartConfigs
    /\ vtm = FreshAdapter
    /\ fs = NoFiles
    /\ written = NoFiles
    /\ ret = NoRet
    /\ calls = 0

\* VTM.__init__ (lines 95-179): another adapter over the same directory,
\* for a dataset with another normalization range (lines 133-141)
Construct ==
    /\ calls < MaxCalls
    /\ \E r \in DatasetRanges \ {cfg.min_max_dataset} :
          cfg' = [cfg EXCEPT !.min_max_dataset = r]
    /\ vtm' = FreshAdapter
    /\ ret' = NoRet
    /\ calls' = calls + 1
    /\ UNCHANGED <<scale_vars, name_vars, variant_vars, step_vars, split_vars, header_vars, fs, written>>

Encode ==
    /\ calls < MaxCalls
    /\ \E nb_frames \in 1..MaxEncFrames, dims \in FrameDims, parcat_ok \in BOOLEAN :
         LET n_cmds == VTM_get_encode_cmd(
                           cfg, bitstream_path_of(file_prefix_of(cfg, dims[2], dims[1])),
                           nb_frames).cmds
         IN  \E exit_ok \in [1..Len(n_cmds) -> BOOLEAN] :
               \* the concatenation tool runs only after N > 1 encoders succeeded
               /\ (Len(n_cmds) <= 1 \/ \E i \in 1..Len(n_cmds) : ~exit_ok[i])
                      => parcat_ok
               /\ \E out \in {VTM_encode(cfg, vtm, fs, written, nb_frames,
                                          dims[1], dims[2], exit_ok, parcat_ok)} :
                     /\ vtm' = out.vtm
                     /\ fs' = out.fs
                     /\ written' = out.written
                     /\ ret' = out.ret
    /\ calls' = calls + 1
    /\ UNCHANGED <<scale_vars, name_vars, variant_vars, step_vars, split_vars, header_vars, cfg>>

Decode ==
    /\ calls < MaxCalls
    /\ \E bitstream_path \in {q \in DOMAIN fs : q.tail = ".bin"},
          dec_ok \in BOOLEAN, dec_delta \in {-1, 0, 1} :
         \* a decoder that failed has its frame count ignored
         /\ ~dec_ok => dec_delta = 0
         /\ \E out \in {VTM_decode(cfg, vtm, fs, written, bitstream_path,
                                    dec_ok, dec_delta)} :
               /\ vtm' = out.vtm
               /\ fs' = out.fs
               /\ written' = out.written
               /\ ret' = out.ret
    /\ calls' = calls + 1
    /\ UNCHANGED <<scale_vars, name_vars, variant_vars, step_vars, split_vars, header_vars, cfg>>

NextCodec ==
    \/ Construct
    \/ Encode
    \/ Decode

SpecCodec == InitCodec /\ [][NextCodec]_vars

(***************************************************************************)
(* Properties of the work splitter (checked under SpecSplit).              *)
(***************************************************************************)
Returned == split_ret.status = "returned"

NumChunks == Len(split_ret.offsets)

\* the frame range [offsets[i], offsets[i] + counts[i]) of worker i
Owned(i) == split_ret.offsets[i] .. (split_ret.offsets[i] + split_ret.counts[i] - 1)

Owners(f) == {i \in 1..NumChunks : f \in Owned(i)}

AllFrames == 0 .. (split_call.num_frames - 1)

\* C1: whenever _distribute_parallel_work returns, the union of the worker
\* ranges is exactly [0, num_frames) and offsets[-1] + counts[-1] == num_frames.
C1_SplitCoverage ==
    Returned =>
        /\ UNION {Owned(i) : i \in 1..NumChunks} = AllFrames
        /\ Last(split_ret.offsets) + Last(split_ret.counts) = split_call.num_frames

C1_Witness ==
    /\ Returned
    /\ split_call.num_workers >= 3
    /\ Last(split_ret.counts) < split_call.intra_period + 1

\* C2 (as stated): every frame index belongs to the range of exactly one
\* worker: the ranges are pairwise disjoint and leave no gap.
C2_ExactPartition ==
    Returned => \A f \in AllFrames : Cardinality(Owners(f)) = 1

\* C2 (amended): every frame index belongs to the range of at least one worker
\* (no gap) and of at most two; it belongs to two exactly when it is the first
\* frame offsets[i+1] of a chunk after the first one, and the two owners are
\* then the consecutive workers i and i+1. No frame lies outside [0, num_frames).
C2_CoverWithSharedBoundaries ==
    Returned =>
        /\ \A i \in 1..NumChunks : Owned(i) \subseteq AllFrames
        /\ \A f \in AllFrames :
              /\ Cardinality(Owners(f)) \in {1, 2}
              /\ (Cardinality(Owners(f)) = 2) <=>
                     (\E i \in 2..NumChunks : split_ret.offsets[i] = f)
              /\ \A i, j \in Owners(f) : i - j \in {-1, 0, 1}

C2_Witness ==
    /\ Returned
    /\ split_call.num_workers >= 2
    /\ \E f \in AllFrames : Cardinality(Owners(f)) = 2
    /\ \E f \in AllFrames : Cardinality(Owners(f)) = 1

\* C3: for every returning call with at least two workers, consecutive chunks
\* i and i+1 share exactly one frame, the last frame of chunk i being the first
\* frame of chunk i+1, and non-consecutive chunks share no frame.
C3_SharedBoundaryFrame ==
    (Returned /\ split_call.num_workers >= 2) =>
        /\ \A i \in 1..(NumChunks - 1) :
              /\ split_ret.offsets[i] + split_ret.counts[i] - 1 = split_ret.offsets[i + 1]
              /\ Owned(i) \cap Owned(i + 1) = {split_ret.offsets[i + 1]}
        /\ \A i, j \in 1..NumChunks : j > i + 1 => Owned(i) \cap Owned(j) = {}

C3_Witness ==
    /\ Returned
    /\ split_call.num_workers >= 3
    /\ split_call.intra_period >= 2

\* C4: for every returning call, offsets[i] = i * intra_period and
\* counts[i] = min(intra_period + 1, num_frames - i * intra_period) for
\* i in 0..num_workers-1; (9, 2, 4) yields offsets = [0, 4], counts = [5, 5].
C4_ClosedForm ==
    /\ Returned =>
        /\ NumChunks = split_call.num_workers
        /\ Len(split_ret.counts) = split_call.num_workers
        /\ \A i \in 1..NumChunks :
              /\ split_ret.offsets[i] = (i - 1) * split_call.intra_period
              /\ split_ret.counts[i] =
                    Min(split_call.intra_period + 1,
                        split_call.num_frames - (i - 1) * split_call.intra_period)
    /\ (/\ split_call = [num_frames |-> 9, num_workers |-> 2, intra_period |-> 4]
        /\ split_ret.status # "pending")
        => split_ret = [status |-> "returned", offsets |-> <<0, 4>>, counts |-> <<5, 5>>]

C4_Witness ==
    /\ split_call = [num_frames |-> 9, num_workers |-> 2, intra_period |-> 4]
    /\ Returned

\* num_workers chunks at stride intra_period do not end exactly at num_frames:
\* no worker at all, the last worker starts past the last frame (too many
\* workers), or the last chunk ends before num_frames (too few workers).
TooManyWorkers ==
    (split_call.num_workers - 1) * split_call.intra_period >= split_call.num_frames

TooFewWorkers ==
    split_call.num_workers * split_call.intra_period + 1 < split_call.num_frames

Inconsistent == split_call.num_workers = 0 \/ TooManyWorkers \/ TooFewWorkers

\* C5: for an inconsistent worker count the call raises and returns no
\* (offsets, counts) pair.
C5_FailFast ==
    (Inconsistent /\ split_ret.status # "pending") => split_ret = Raised

C5_Witness ==
    /\ split_ret = Raised
    /\ split_call.num_workers >= 2
    /\ TooManyWorkers
    /\ split_call.num_frames > 1

(***************************************************************************)
(* VTM.encode (lines 371-533) stepped through statement by statement, the  *)
(* encoder processes of run_cmdline / run_cmdlines_parallel running        *)
(* concurrently.  run.m holds the locals of the call, the adapter and the  *)
(* files; run.procs the state of each encoder process; run.phases the      *)
(* phases the call has entered, in order.                                  *)
(***************************************************************************)
\* what an earlier run may have left at the final bitstream path
StaleBitstream == <<9>>

StartFiles(config, dims) ==
    {NoFiles,
     write_file(NoFiles, bitstream_path_of(file_prefix_of(config, dims[2], dims[1])),
                StaleBitstream)}

InitSteps ==
    /\ SplitIdle
    /\ HeaderIdle
    /\ CodecIdle
    /\ NamesIdle
    /\ VariantsIdle
    /\ ScaleIdle
    /\ \E config \in StartConfigs, nb_frames \in 1..MaxEncFrames, dims \in FrameDims :
         \E files \in StartFiles(config, dims) :
            run = [pc |-> "idle",
                   m |-> [config |-> config,
                          vtm |-> FreshAdapter,
                          fs |-> files,
                          written |-> NoFiles,
                          yuv_in_path |-> yuv_in_path_of(
                                              file_prefix_of(config, dims[2], dims[1])),
                          cmds |-> <<>>,
                          ret |-> [NoRet EXCEPT !.nb_frames = nb_frames,
                                                !.frame_size = dims]],
                   procs |-> <<>>,
                   phases |-> <<>>]

\* the next position: "raised" once the call has raised
next_pc(m, pc) == IF running(m) THEN pc ELSE "raised"

\* lines 391-453: reset, normalization, FrameInfo buffer, the input yuv file
StepConvert ==
    /\ run.pc = "idle"
    /\ \E m \in {encode_convert(run.m.config, run.m.vtm, run.m.fs, run.m.written,
                                run.m.ret.nb_frames, run.m.ret.frame_size[1],
                                run.m.ret.frame_size[2])} :
          run' = [run EXCEPT !.m = m, !.pc = "commands",
                             !.phases = Append(@, "convert")]
    /\ UNCHANGED <<scale_vars, name_vars, variant_vars, split_vars, header_vars, codec_vars>>

\* lines 455-469: get_encode_cmd
StepGetCmds ==
    /\ run.pc = "commands"
    /\ \E m \in {encode_get_cmds(run.m)} :
          run' = [run EXCEPT !.m = m, !.pc = next_pc(m, "dispatch")]
    /\ UNCHANGED <<scale_vars, name_vars, variant_vars, split_vars, header_vars, codec_vars>>

\* lines 471-475: run_cmdlines_parallel / run_cmdline start one process per
\* command
StepDispatch ==
    /\ run.pc = "dispatch"
    /\ run' = [run EXCEPT !.procs = [i \in 1..Len(run.m.cmds) |-> "running"],
                          !.pc = "wait",
                          !.phases = Append(@, "dispatch")]
    /\ UNCHANGED <<scale_vars, name_vars, variant_vars, split_vars, header_vars, codec_vars>>

\* one encoder process ends: exit code 0 with its output file written, or
\* non-zero
StepWorkerExit ==
    /\ run.pc = "wait"
    /\ \E i \in 1..Len(run.procs), ok \in BOOLEAN :
          /\ run.procs[i] = "running"
          /\ run' = [run EXCEPT
                        !.procs[i] = IF ok THEN "done" ELSE "failed",
                        !.m.fs = run_encoders(@, <<run.m.cmds[i]>>, <<ok>>),
                        !.m.written = forget(@, IF ok THEN {run.m.cmds[i].BitstreamFile}
                                                ELSE {})]
    /\ UNCHANGED <<scale_vars, name_vars, variant_vars, split_vars, header_vars, codec_vars>>

\* run_cmdlines_parallel / run_cmdline return once every process has ended,
\* and raise when one of them exited non-zero
StepJoin ==
    /\ run.pc = "wait"
    /\ \A i \in 1..Len(run.procs) : run.procs[i] # "running"
    /\ IF \A i \in 1..Len(run.procs) : run.procs[i] = "done"
       THEN run' = [run EXCEPT !.pc = IF Len(run.m.cmds) > 1 THEN "concatenate"
                                      ELSE "assert"]
       ELSE run' = [run EXCEPT !.m = raised_in(@, "encode"), !.pc = "raised"]
    /\ UNCHANGED <<scale_vars, name_vars, variant_vars, split_vars, header_vars, codec_vars>>

\* mutant: the concatenation is issued while encoder processes may still run
StepConcatenate_before_join ==
    /\ run.pc \in {"wait", "concatenate"}
    /\ Len(run.m.cmds) > 1
    /\ \E parcat_ok \in BOOLEAN :
          \E m \in {encode_parcat(run.m, parcat_ok)} :
             run' = [run EXCEPT !.m = m, !.pc = next_pc(m, "assert"),
                                !.phases = Append(@, "concatenate")]
    /\ UNCHANGED <<scale_vars, name_vars, variant_vars, split_vars, header_vars, codec_vars>>

\* lines 479-485: get_parcat_cmd, the concatenation tool, removal of the
\* partial files
StepConcatenate ==
    /\ run.pc = "concatenate"
    /\ \E parcat_ok \in BOOLEAN :
          \E m \in {encode_parcat(run.m, parcat_ok)} :
             run' = [run EXCEPT !.m = m, !.pc = next_pc(m, "assert"),
                                !.phases = Append(@, "concatenate")]
    /\ UNCHANGED <<scale_vars, name_vars, variant_vars, split_vars, header_vars, codec_vars>>

\* lines 487-489
StepAssertCreated ==
    /\ run.pc = "assert"
    /\ \E m \in {encode_assert_created(run.m)} :
          run' = [run EXCEPT !.m = m, !.pc = next_pc(m, "header")]
    /\ UNCHANGED <<scale_vars, name_vars, variant_vars, split_vars, header_vars, codec_vars>>

\* lines 491-506: load the inner bitstream, write the header to the buffer
StepWriteHeader ==
    /\ run.pc = "header"
    /\ \E m \in {encode_write_header(run.m)} :
          run' = [run EXCEPT !.m = m, !.pc = next_pc(m, "finalize"),
                             !.phases = Append(@, "header-write")]
    /\ UNCHANGED <<scale_vars, name_vars, variant_vars, split_vars, header_vars, codec_vars>>

\* lines 508-533: header and inner bitstream written to the final path, the
\* input yuv file removed, return
StepFinalize ==
    /\ run.pc = "finalize"
    /\ \E m \in {encode_finalize(run.m)} :
          run' = [run EXCEPT !.m = m, !.pc = "done",
                             !.phases = Append(@, "finalized")]
    /\ UNCHANGED <<scale_vars, name_vars, variant_vars, split_vars, header_vars, codec_vars>>

NextSteps ==
    \/ StepConvert
    \/ StepGetCmds
    \/ StepDispatch
    \/ StepWorkerExit
    \/ StepJoin
    \/ StepConcatenate
    \/ StepAssertCreated
    \/ StepWriteHeader
    \/ StepFinalize

SpecSteps == InitSteps /\ [][NextSteps]_vars

(***************************************************************************)
(* Properties of VTM.encode and VTM.decode (checked under SpecCodec).      *)
(***************************************************************************)
\* the last call was a decode of a container that a successful encode wrote
DecodedAContainer == ret.op = "decode" /\ ret.source # <<>>

\* C7: when decode reads a container written by encode, it reads SequenceInfo
\* first, then exactly SequenceInfo.num_frames FrameInfo records, and the bytes
\* it writes to the temporary file are byte for byte the inner codec bitstream
\* the external encoder (or the concatenation step) produced.
C7_ContainerRoundTrip ==
    DecodedAContainer =>
        /\ ret.sequence_info = <<[bitdepth |-> ret.source[1].bitdepth,
                                  frame_size |-> ret.source[1].frame_size,
                                  num_frames |-> ret.source[1].num_frames]>>
        /\ Len(ret.frame_infos) = ret.source[1].num_frames
        /\ \A k \in 1..Len(ret.frame_infos) :
              ret.frame_infos[k] =
                  [frame_id |-> k - 1,
                   minv |-> float32_value(float32_bytes(ret.source[1].min_max[1])),
                   maxv |-> float32_value(float32_bytes(ret.source[1].min_max[2]))]
        /\ ret.tmp_written
        /\ ret.tmp = ret.source[1].inner
        /\ Len(fs[ret.bitstream]) =
              13 + 8 * ret.source[1].num_frames + Len(ret.source[1].inner)

C7_Witness ==
    /\ DecodedAContainer
    /\ ret.status = "returned"
    /\ ret.source[1].num_frames = 5
    /\ ret.tmp = <<0, 3, 2, 3, 4, 1>>

\* a and b differ by more than the tolerance (relative 1e-4, absolute 1e-4)
\* (for integers d > x / 10000 is d > x \div 10000)
OutOfTolerance(a, b) ==
    /\ Abs(a - b) > Max(Abs(a), Abs(b)) \div 10000
    /\ Abs(a - b) > 0

RangeMismatch ==
    \E k \in 1..Len(ret.frame_infos) :
        \/ OutOfTolerance(ret.frame_infos[k].minv, cfg.min_max_dataset[1])
        \/ OutOfTolerance(ret.frame_infos[k].maxv, cfg.min_max_dataset[2])

\* C8: decode fails and returns no reconstructed features whenever at least one
\* FrameInfo record of the container carries a (minv, maxv) that differs from
\* the adapter's dataset range by more than the tolerance.
C8_RangeMismatchFails ==
    (ret.op = "decode" /\ RangeMismatch) => ret.status = "raised"

C8_Witness ==
    /\ ret.op = "decode"
    /\ RangeMismatch
    /\ ret.status = "raised"
    /\ ret.phase = "range-check"
    /\ ret.rec_frames = ret.sequence_info[1].num_frames

\* a range that differs within the tolerance is accepted
C8_WithinToleranceAccepted ==
    /\ ret.op = "decode"
    /\ ret.status = "returned"
    /\ ret.source # <<>>
    /\ ret.source[1].min_max # cfg.min_max_dataset

\* C9: decode fails, without returning reconstructed features, whenever the
\* number of frames produced by the external decoder differs from the
\* num_frames recorded in the container's SequenceInfo.
C9_FrameCountMismatchFails ==
    (ret.op = "decode" /\ ret.status = "returned") =>
        ret.rec_frames = ret.sequence_info[1].num_frames

RECURSIVE FrameInfoBytes(_, _, _)
FrameInfoBytes(n, minv, maxv) ==
    IF n = 0 THEN <<>>
    ELSE float32_bytes(minv) \o float32_bytes(maxv) \o FrameInfoBytes(n - 1, minv, maxv)

\* the header of the container of the last encode call
ExpectedHeader ==
    uchar_bytes(cfg.output_bitdepth)
    \o uint_bytes(ret.frame_size[1])
    \o uint_bytes(ret.frame_size[2])
    \o uint_bytes(ret.nb_frames)
    \o FrameInfoBytes(ret.nb_frames, cfg.min_max_dataset[1], cfg.min_max_dataset[2])

\* C10: every container that a successful encode writes holds a SequenceInfo
\* whose num_frames equals the number of frames of that encode call and the
\* number of FrameInfo records that follow it; no FrameInfo record or header
\* byte of an earlier call is carried over.
C10_HeaderOfThisCallOnly ==
    (ret.op = "encode" /\ ret.status = "returned") =>
        /\ fs[ret.bitstream] = ExpectedHeader \o ret.inner
        /\ Len(fs[ret.bitstream]) = 13 + 8 * ret.nb_frames + Len(ret.inner)
        /\ uint_value(SubSeq(fs[ret.bitstream], 10, 13)) = ret.nb_frames
        /\ Len(vtm.frame_info_buffer) = ret.nb_frames

\* the second of two encodes in a row on one adapter: the first buffered five
\* FrameInfo records and ran three workers, the second encodes four frames
C10_Witness ==
    /\ ret.op = "encode"
    /\ ret.status = "returned"
    /\ calls = 2
    /\ ret.num_cmds = 2
    /\ worker_bitstream_path_of(ret.bitstream, 2) \in DOMAIN fs

\* C11: every SequenceInfo that a successful encode writes has a bit depth
\* within 1..16, for every configuration that get_encode_cmd accepts,
\* including output_bitdepth = 0.
C11_BitDepthInRange ==
    (ret.op = "encode" /\ ret.status = "returned") =>
        /\ ret.sequence_info[1].bitdepth \in 1..16
        /\ fs[ret.bitstream][1] \in 1..16

\* the header of the container of the last encode call, parsed from the file
ParsedHeader ==
    LET fd == [data |-> fs[ret.bitstream], pos |-> 0]
        si == HeaderReader_read_sequence_info(HeaderReader_init, fd)
    IN  [sequence_info |-> si.value,
         frame_infos |-> read_frame_infos(si.self, si.fd, si.value.num_frames).values]

EncodeReturned == ret.op = "encode" /\ ret.status = "returned"

\* C12 (as stated): after a successful encode of F frames of height H and
\* width W with dataset range (minv, maxv) the header parses back to H, W, F
\* and each of the F FrameInfo records equals (minv, maxv).
C12_HeaderParsesBackExactly ==
    EncodeReturned =>
        \A hdr \in {ParsedHeader} :
            /\ hdr.sequence_info.frame_size = ret.frame_size
            /\ hdr.sequence_info.num_frames = ret.nb_frames
            /\ Len(hdr.frame_infos) = ret.nb_frames
            /\ \A k \in 1..ret.nb_frames :
                  /\ hdr.frame_infos[k].minv = cfg.min_max_dataset[1]
                  /\ hdr.frame_infos[k].maxv = cfg.min_max_dataset[2]

\* C12 (amended): the header parses back to H, W, F and each of the F
\* FrameInfo records holds the 32-bit floats nearest to (minv, maxv), which
\* are within the decode tolerance of (minv, maxv); every frame carries the
\* same dataset-level pair.
C12_HeaderParsesBackToFloat32 ==
    EncodeReturned =>
        \A hdr \in {ParsedHeader} :
            /\ hdr.sequence_info.frame_size = ret.frame_size
            /\ hdr.sequence_info.num_frames = ret.nb_frames
            /\ Len(hdr.frame_infos) = ret.nb_frames
            /\ IsNearestFloat32(hdr.frame_infos[1].minv, cfg.min_max_dataset[1])
            /\ IsNearestFloat32(hdr.frame_infos[1].maxv, cfg.min_max_dataset[2])
            /\ ~OutOfTolerance(hdr.frame_infos[1].minv, cfg.min_max_dataset[1])
            /\ ~OutOfTolerance(hdr.frame_infos[1].maxv, cfg.min_max_dataset[2])
            /\ \A k \in 1..ret.nb_frames :
                  /\ hdr.frame_infos[k].minv = hdr.frame_infos[1].minv
                  /\ hdr.frame_infos[k].maxv = hdr.frame_infos[1].maxv

\* three frames encoded with a range that no 32-bit float represents
C12_Witness ==
    /\ EncodeReturned
    /\ ret.nb_frames = 3
    /\ cfg.min_max_dataset[2] = 16777217
    /\ ParsedHeader.frame_infos[3].maxv = 16777216
    /\ ParsedHeader.sequence_info.frame_size = <<4, 6>>

\* file_path.suffix of the files of the codec output directory
suffix_of(q) ==
    IF q.tail \in {".bin", "-part.bin", "_tmp.bin"} THEN ".bin" ELSE ".yuv"

\* "_tmp" in file_path.name
name_has_tmp(q) == q.tail = "_tmp.bin"

\* VideoSplitInference.__call__, decode only: the files matching
\* '{bitstream_name}*' with suffix .bin or .mp4 and without '_tmp' in the name
bin_files(files) ==
    {q \in DOMAIN files : suffix_of(q) \in {".bin", ".mp4"} /\ ~name_has_tmp(q)}

\* a successful encode into an empty directory, possibly followed by a
\* successful decode of its container
EncodedThenDecoded ==
    /\ ret.status = "returned"
    /\ \/ ret.op = "encode" /\ calls = 1
       \/ ret.op = "decode" /\ calls = 2 /\ ret.source # <<>>

\* C29: after a successful encode (single or parallel, any stash_outputs),
\* optionally followed by successful decodes, the decode-only filter of
\* VideoSplitInference selects exactly one file, the finalized container.
C29_DecodeOnlyFindsOneBitstream ==
    EncodedThenDecoded => bin_files(fs) = {ret.bitstream}

\* the commands of the encode that has just returned
CurrentCmds == VTM_get_encode_cmd(cfg, ret.bitstream, ret.nb_frames).cmds

\* the outputs of the workers of this encode, appended in worker order
CurrentPartials ==
    [k \in 1..(2 * ret.num_cmds) |->
        encoder_output(CurrentCmds[(k + 1) \div 2])[2 - (k % 2)]]

\* C26: in any sequence of parallel encodes to the same final path, the
\* concatenation step receives exactly the partial outputs of the workers of
\* the current encode: the concatenated bitstream never holds a partial file
\* that an earlier encode left behind.
C26_OnlyCurrentPartialsConcatenated ==
    (ret.op = "encode" /\ ret.status = "returned" /\ ret.num_cmds > 1) =>
        ret.inner = CurrentPartials

\* C23: the k-th read_frame_info of a HeaderReader stamps frame_id = k - 1,
\* and every decode starts with a fresh HeaderReader: the FrameInfo records
\* of a decoded sequence carry frame_id 0..num_frames-1 in read order, also
\* when the adapter has decoded (and counted frames) before.
C23_FrameIdsFromZero ==
    (ret.op = "decode" /\ ret.frame_infos # <<>>) =>
        /\ \A k \in 1..Len(ret.frame_infos) : ret.frame_infos[k].frame_id = k - 1
        /\ vtm.header_reader.num_frames_read = Len(ret.frame_infos)

\* a decode by an adapter whose reader had already counted frames
C23_Witness ==
    /\ ret.op = "decode"
    /\ ret.status = "returned"
    /\ ret.reads_at_entry > 0
    /\ Len(ret.frame_infos) >= 2
    /\ ret.frame_infos[2].frame_id = 1

(***************************************************************************)
(* The names of the partial files (_parallel_encode_cmd lines 302-314,     *)
(* get_parcat_cmd lines 340-345).  A string is the sequence of the code    *)
(* points of its characters; a path is a directory and a name.             *)
(***************************************************************************)
Str_part == <<45, 112, 97, 114, 116, 45>>          \* "-part-"
Str_bin == <<46, 98, 105, 110>>                    \* ".bin"
Str_input_yuv == <<95, 105, 110, 112, 117, 116, 46, 121, 117, 118>>  \* "_input.yuv"
Str_enc_log == <<95, 101, 110, 99, 46, 108, 111, 103>>               \* "_enc.log"
Stems == {<<97>>, <<97, 45, 112>>}                 \* "a", "a-p"
Parents == {<<111>>, <<111, 47, 100>>}             \* "o", "o/d"

RECURSIVE decimal(_)
decimal(n) == IF n < 10 THEN <<48 + n>> ELSE decimal(n \div 10) \o <<48 + (n % 10)>>

\* mutant: "{worker_idx}" with no zero padding
format_03d_no_padding(n) == decimal(n)

\* f"{worker_idx:03d}"
format_03d(n) ==
    IF Len(decimal(n)) >= 3 THEN decimal(n)
    ELSE [k \in 1..(3 - Len(decimal(n))) |-> 48] \o decimal(n)

\* mutant: every worker is given the name of worker 0
worker_bitstream_path_shared(bitstream_path, worker_idx) ==
    [parent |-> bitstream_path.parent,
     name |-> bitstream_path.stem \o Str_part \o format_03d(0) \o bitstream_path.suffix]

\* lines 311-314: f"{parent}/{stem}-part-{worker_idx:03d}{suffix}"
worker_bitstream_path(bitstream_path, worker_idx) ==
    [parent |-> bitstream_path.parent,
     name |-> bitstream_path.stem \o Str_part \o format_03d(worker_idx)
                  \o bitstream_path.suffix]

\* Path(...): the file the final bitstream path names
path_of(bp) == [parent |-> bp.parent, name |-> bp.stem \o bp.suffix]

\* Python's < on strings
RECURSIVE str_less(_, _)
str_less(a, b) ==
    IF b = <<>> THEN FALSE
    ELSE IF a = <<>> THEN TRUE
    ELSE IF Head(a) # Head(b) THEN Head(a) < Head(b)
    ELSE str_less(Tail(a), Tail(b))

\* sorted() of paths of one directory
RECURSIVE sorted_paths(_)
sorted_paths(paths) ==
    IF paths = {} THEN <<>>
    ELSE LET first == CHOOSE q \in paths :
                          \A o \in paths : o = q \/ str_less(q.name, o.name)
         IN  <<first>> \o sorted_paths(paths \ {first})

\* bp.parent.glob(f"{bp.stem}-part-*{bp.suffix}"): the files of the directory
\* whose name starts with "{stem}-part-" and ends with the suffix
glob_part_files(files, bp) ==
    {q \in files :
        /\ q.parent = bp.parent
        /\ Len(q.name) >= Len(bp.stem) + Len(Str_part) + Len(bp.suffix)
        /\ SubSeq(q.name, 1, Len(bp.stem) + Len(Str_part)) = bp.stem \o Str_part
        /\ SubSeq(q.name, Len(q.name) - Len(bp.suffix) + 1, Len(q.name)) = bp.suffix}

\* get_parcat_cmd (lines 329-345); "parcat" stands for self.parcat_path
get_parcat_cmd(files, bitstream_path) ==
    LET bitstream_lists == sorted_paths(glob_part_files(files, bitstream_path))
    IN  [cmd |-> <<"parcat">> \o bitstream_lists \o <<path_of(bitstream_path)>>,
         bitstream_lists |-> bitstream_lists]

\* the other files of a job that may be in the output directories
OtherFiles(bp) ==
    {path_of(bp),
     [parent |-> bp.parent, name |-> bp.stem \o Str_input_yuv],
     [parent |-> bp.parent, name |-> bp.stem \o Str_enc_log]}

InitNames ==
    /\ SplitIdle
    /\ HeaderIdle
    /\ CodecIdle
    /\ StepsIdle
    /\ VariantsIdle
    /\ ScaleIdle
    /\ \E stem \in Stems, parent \in Parents, num_workers \in 2..MaxNameWorkers :
         \E others \in SUBSET OtherFiles([parent |-> parent, stem |-> stem,
                                          suffix |-> Str_bin]) :
            nm_call = [bitstream_path |-> [parent |-> parent, stem |-> stem,
                                           suffix |-> Str_bin],
                       num_workers |-> num_workers,
                       others |-> others]
    /\ nm_ret = <<>>

\* the workers write their outputs (lines 308-325 give them their paths),
\* then get_parcat_cmd is called (line 480)
CallNames ==
    /\ nm_ret = <<>>
    /\ \E paths \in {[i \in 1..nm_call.num_workers |->
                        worker_bitstream_path(nm_call.bitstream_path, i - 1)]} :
          nm_ret' = <<[paths |-> paths,
                       parcat |-> get_parcat_cmd(
                                      nm_call.others \cup {paths[i] : i \in 1..Len(paths)},
                                      nm_call.bitstream_path)]>>
    /\ UNCHANGED <<scale_vars, split_vars, header_vars, codec_vars, step_vars, variant_vars, nm_call>>

NextNames == CallNames

SpecNames == InitNames /\ [][NextNames]_vars

(***************************************************************************)
(* get_encode_cmd of the registered codec variants (VTM lines 211-291, HM  *)
(* 731-804, JM 821-900, VVENC 932-972), called as VTM.encode calls it      *)
(* (lines 457-469).  Python values carry their type: a string, or a list   *)
(* of values.                                                              *)
(***************************************************************************)
Variants == {"VTM", "HM", "JM", "VVENC"}

Str(text) == [type |-> "str", text |-> text, value |-> <<>>]

\* a formatted argument such as f"--FrameSkip={frameSkip}": its text and the
\* value formatted into it
Arg(text, value) == [type |-> "str", text |-> text, value |-> <<value>>]

List(items) == [type |-> "list", items |-> items]

\* list(map(str, cmd)) / [str(x) for x in cmd]
StrList(texts) == List([k \in 1..Len(texts) |-> Str(texts[k])])

\* the keyword arguments of the call at lines 457-469 (inp_yuv_path is
\* passed by position)
EncodeCallKeywords ==
    {"width", "height", "qp", "bitstream_path", "nb_frames", "chroma_format",
     "input_bitdepth", "output_bitdepth", "parallel_encoding", "hash_check"}

\* a call that names only the arguments every variant declares
CoreKeywords == {"width", "height", "qp", "bitstream_path", "nb_frames"}

\* the parameters each get_encode_cmd declares (none takes **kwargs)
Parameters(variant) ==
    IF variant = "VVENC"
    THEN {"inp_yuv_path", "qp", "bitstream_path", "width", "height", "nb_frames"}
    ELSE {"inp_yuv_path", "qp", "bitstream_path", "width", "height", "nb_frames",
          "parallel_encoding", "hash_check", "chroma_format", "input_bitdepth",
          "output_bitdepth"}

\* level = 5.1 if nb_frames > 1 else 6.2 (lines 242, 762), in tenths
level_of(nb_frames) == IF nb_frames > 1 THEN 51 ELSE 62

\* lines 246, 766
decodingRefreshType_of(config) == IF config.intra_period >= 1 THEN 1 ELSE 0

\* VTM.get_encode_cmd: base_cmd (lines 247-276)
VTM_base_cmd(config, nb_frames) ==
    <<Str("encoder_path"), Str("-i"), Str("inp_yuv_path"), Str("-c"), Str("cfg_file"),
      Str("-q"), Str("qp"), Str("-o"), Str("/dev/null"), Str("-wdt"), Str("width"),
      Str("-hgt"), Str("height"), Str("-fr"), Str("frame_rate"), Str("-ts"), Str("1"),
      Str("-v"), Str("6"),
      Arg("--Level", level_of(nb_frames)),
      Arg("--IntraPeriod", config.intra_period),
      Str("--InputChromaFormat"),
      Arg("--InputBitDepth", config.input_bitdepth),
      Arg("--InternalBitDepth", InternalBitDepth_of(config)),
      Str("--ConformanceWindowMode=1"), Str("-dph"), Str("hash_check"),
      Arg("--DecodingRefreshType", decodingRefreshType_of(config))>>

\* HM.get_encode_cmd: base_cmd (lines 767-792)
HM_base_cmd(config, nb_frames) ==
    <<Str("encoder_path"), Str("-i"), Str("inp_yuv_path"), Str("-c"), Str("cfg_file"),
      Str("-q"), Str("qp"), Str("-o"), Str("/dev/null"), Str("-wdt"), Str("width"),
      Str("-hgt"), Str("height"), Str("-fr"), Str("frame_rate"), Str("-ts"), Str("1"),
      Arg("--Level", level_of(nb_frames)),
      Arg("--IntraPeriod", config.intra_period),
      Str("--InputChromaFormat"),
      Arg("--InputBitDepth", config.input_bitdepth),
      Arg("--InternalBitDepth", InternalBitDepth_of(config)),
      Str("--ConformanceWindowMode=1"),
      Arg("--DecodingRefreshType", decodingRefreshType_of(config))>>

\* _parallel_encode_cmd (lines 293-327) on a given base_cmd: one command per
\* (frameSkip, framesToBeEncoded) pair
parallel_encode_cmd_value(base_cmd, config, bitstream_path, nb_frames) ==
    LET got == VTM_parallel_encode_cmd(config, bitstream_path, nb_frames)
    IN  IF ~got.ok THEN [status |-> "raised", error |-> "AssertionError", value |-> <<>>]
        ELSE [status |-> "returned", error |-> "",
              value |-> <<List([k \in 1..Len(got.cmds) |->
                  List(base_cmd
                       \o <<Arg("--BitstreamFile", got.cmds[k].BitstreamFile),
                            Arg("--FrameSkip", got.cmds[k].FrameSkip),
                            Arg("--FramesToBeEncoded", got.cmds[k].FramesToBeEncoded)>>)])>>]

\* mutant: the sequential branch is taken for nb_frames <= intra_period only
single_or_parallel_up_to_period(base_cmd, config, bitstream_path, nb_frames) ==
    IF config.parallel_encoding = FALSE \/ nb_frames <= config.intra_period
    THEN [status |-> "returned", error |-> "",
          value |-> <<List(<<List(base_cmd
                                  \o <<Arg("--BitstreamFile", bitstream_path),
                                       Arg("--FramesToBeEncoded", nb_frames)>>)>>)>>]
    ELSE parallel_encode_cmd_value(base_cmd, config, bitstream_path, nb_frames)

\* lines 278-291 and 794-804: one command, or the commands of the workers
single_or_parallel(base_cmd, config, bitstream_path, nb_frames) ==
    IF config.parallel_encoding = FALSE \/ nb_frames <= config.intra_period + 1
    THEN [status |-> "returned", error |-> "",
          value |-> <<List(<<List(base_cmd
                                  \o <<Arg("--BitstreamFile", bitstream_path),
                                       Arg("--FramesToBeEncoded", nb_frames)>>)>>)>>]
    ELSE parallel_encode_cmd_value(base_cmd, config, bitstream_path, nb_frames)

\* VTM.get_encode_cmd (lines 211-291) as a Python value
VTM_get_encode_cmd_value(config, bitstream_path, nb_frames) ==
    single_or_parallel(VTM_base_cmd(config, nb_frames), config, bitstream_path, nb_frames)

\* HM.get_encode_cmd (lines 731-804)
HM_get_encode_cmd_value(config, bitstream_path, nb_frames) ==
    single_or_parallel(HM_base_cmd(config, nb_frames), config, bitstream_path, nb_frames)

JM_get_encode_cmd_value_no_assert(config, bitstream_path, nb_frames) ==
    [status |-> "returned", error |-> "",
     value |-> <<List(<<StrList(<<"encoder_path", "-p", "FramesToBeEncoded">>)>>)>>]

\* JM.get_encode_cmd (lines 821-900)
JM_get_encode_cmd_value(config, bitstream_path, nb_frames) ==
    IF config.parallel_encoding # FALSE
    THEN [status |-> "raised", error |-> "AssertionError", value |-> <<>>]
    ELSE [status |-> "returned", error |-> "",
          value |-> <<List(<<StrList(
              <<"encoder_path", "-d", "default_cfg_file", "-f", "cfg_file", "-p",
                "InputFile", "-p", "QPISlice", "-p", "QPPSlice", "-p", "QPBSlice",
                "-p", "SourceWidth", "-p", "OutputWidth", "-p", "SourceHeight",
                "-p", "OutputHeight", "-p", "FrameRate", "-p", "IntraPeriod",
                "-p", "YUVFormat=0", "-p", "SourceBitDepthLuma", "-p",
                "ChromaWeightSupport=0", "-p", "OutputFile", "-p",
                "FramesToBeEncoded", "-p", "LevelIDC">>)>>)>>]

\* VVENC.get_encode_cmd (lines 932-972): return list(map(str, cmd))
VVENC_get_encode_cmd_value(config, bitstream_path, nb_frames) ==
    [status |-> "returned", error |-> "",
     value |-> <<StrList(
         <<"encoder_path", "-i", "inp_yuv_path", "-q", "qp", "--output",
           "bitstream_path", "--size", "WxH", "--framerate", "frame_rate",
           "--frames", "nb_frames", "--format", "yuv420_10", "--preset", "fast">>)>>]

\* self.get_encode_cmd(yuv_in_path, width=..., ...): Python raises TypeError
\* for a keyword argument the method does not declare
call_get_encode_cmd(variant, keywords, config, bitstream_path, nb_frames) ==
    IF ~(keywords \subseteq Parameters(variant))
    THEN [status |-> "raised", error |-> "TypeError", value |-> <<>>]
    ELSE IF variant = "JM"
        THEN JM_get_encode_cmd_value(config, bitstream_path, nb_frames)
    ELSE IF variant = "VVENC"
        THEN VVENC_get_encode_cmd_value(config, bitstream_path, nb_frames)
    ELSE IF variant = "HM"
        THEN HM_get_encode_cmd_value(config, bitstream_path, nb_frames)
    ELSE VTM_get_encode_cmd_value(config, bitstream_path, nb_frames)

\* lines 472-475: the dispatch decision of encode
dispatch_of(cmds) ==
    IF Len(cmds.items) > 1 THEN "run_cmdlines_parallel" ELSE "run_cmdline"

concatenates_of_more_than_two(cmds) == Len(cmds.items) > 2

\* line 479: the concatenation step runs after a parallel encoding
concatenates_of(cmds) == Len(cmds.items) > 1

\* codec_paths entries whose file does not exist (at most one at a time)
MissingPaths == {{}, {"encoder_exe"}, {"decoder_exe"}, {"cfg_file"}, {"parcat_exe"}}

\* VTM.__init__ (lines 95-179): the paths checked with is_file (lines 115-124)
check_list_of_paths(config) ==
    <<"encoder_exe", "decoder_exe", "cfg_file">>
    \o (IF config.parallel_encoding THEN <<"parcat_exe">> ELSE <<>>)

\* VTM.__init__: ValueError for a missing path (119-124) or a dataset without
\* a normalization range (133-141); otherwise the adapter exists
VTM_init(config, missing, dataset_known) ==
    IF \E k \in 1..Len(check_list_of_paths(config)) :
           check_list_of_paths(config)[k] \in missing
    THEN "ValueError"
    ELSE IF ~dataset_known THEN "ValueError"
    ELSE "constructed"

\* HM inherits VTM.__init__; JM.__init__ (811-819) and VVENC.__init__ (925-931)
\* call it and add no check
Variant_init(variant, config, missing, dataset_known) ==
    VTM_init(config, missing, dataset_known)

\* the encoder configurations of the call: every intra period up to MaxPeriod
VariantConfigs ==
    {[c EXCEPT !.intra_period = p] : c \in {d \in StartConfigs : ~d.stash_outputs},
                                      p \in 1..MaxPeriod}

InitVariants ==
    /\ SplitIdle
    /\ HeaderIdle
    /\ CodecIdle
    /\ StepsIdle
    /\ NamesIdle
    /\ ScaleIdle
    /\ \E variant \in Variants, config \in VariantConfigs,
          nb_frames \in 1..MaxEncFrames, dims \in FrameDims,
          keywords \in {EncodeCallKeywords, CoreKeywords},
          missing \in MissingPaths, dataset_known \in BOOLEAN :
            gc_call = [variant |-> variant,
                       adapter |-> "none",
                       missing |-> missing,
                       dataset_known |-> dataset_known,
                       config |-> config,
                       keywords |-> keywords,
                       bitstream_path |-> bitstream_path_of(
                                              file_prefix_of(config, dims[2], dims[1])),
                       nb_frames |-> nb_frames]
    /\ gc_ret = <<>>

\* the constructor of the variant, run once on the arguments drawn in Init
ConstructAdapter ==
    /\ gc_call.adapter = "none"
    /\ gc_call' = [gc_call EXCEPT !.adapter =
                       Variant_init(gc_call.variant, gc_call.config, gc_call.missing,
                                    gc_call.dataset_known)]
    /\ UNCHANGED <<scale_vars, split_vars, header_vars, codec_vars, step_vars, name_vars, gc_ret>>

CallGetEncodeCmd ==
    /\ gc_call.adapter = "constructed"
    /\ gc_ret = <<>>
    /\ \E got \in {call_get_encode_cmd(gc_call.variant, gc_call.keywords, gc_call.config,
                                       gc_call.bitstream_path, gc_call.nb_frames)} :
          gc_ret' = <<[got EXCEPT !.value =
                          IF got.status = "returned"
                          THEN <<[cmds |-> got.value[1],
                                  dispatch |-> dispatch_of(got.value[1]),
                                  concatenates |-> concatenates_of(got.value[1])]>>
                          ELSE <<>>]>>
    /\ UNCHANGED <<scale_vars, split_vars, header_vars, codec_vars, step_vars, name_vars, gc_call>>

NextVariants ==
    \/ ConstructAdapter
    \/ CallGetEncodeCmd

SpecVariants == InitVariants /\ [][NextVariants]_vars

(***************************************************************************)
(* Properties of the stepped encode (checked under SpecSteps).             *)
(***************************************************************************)
FinalPath == run.m.ret.bitstream

WorkerFailed == \E i \in 1..Len(run.procs) : run.procs[i] = "failed"

Entered(phase) == \E k \in 1..Len(run.phases) : run.phases[k] = phase

\* C13: if any one of the N > 1 worker encode processes of a parallel encode
\* fails, the whole encode fails: the concatenation step is not run, no header
\* is written, and no file is published at the final bitstream path.
C13_WorkerFailureFailsEncode ==
    (Len(run.procs) > 1 /\ WorkerFailed) =>
        /\ run.pc \in {"wait", "raised"}
        /\ run.pc = "raised" =>
              run.m.ret.status = "raised" /\ run.m.ret.phase = "encode"
        /\ ~Entered("concatenate")
        /\ ~Entered("header-write")
        /\ run.m.vtm.temp_io_buffer = EmptyStream
        /\ is_file(run.m.fs, FinalPath) => run.m.fs[FinalPath] = StaleBitstream

C13_Witness ==
    /\ run.pc = "raised"
    /\ run.procs = <<"done", "failed", "done">>
    /\ run.phases = <<"convert", "dispatch">>
    /\ ~is_file(run.m.fs, FinalPath)

\* C14: if one of two parallel worker processes exits non-zero while the
\* other succeeds, then after the failed encode returns control to the caller
\* no partial file of that job ('-part-000', '-part-001') is left on disk.
C14_NoPartialFilesAfterFailure ==
    (/\ run.pc = "raised"
     /\ Len(run.procs) = 2
     /\ WorkerFailed
     /\ \E i \in 1..2 : run.procs[i] = "done") =>
        \A idx \in 0..1 : ~is_file(run.m.fs, worker_bitstream_path_of(FinalPath, idx))

PastDispatch ==
    \/ run.pc \in {"concatenate", "assert", "header", "finalize", "done"}
    \/ Entered("concatenate")
    \/ Entered("header-write")

\* C17: join-all: in a parallel encode the concatenation command is issued
\* only after every one of the N worker encode processes has finished; no
\* partial output is read by the concatenation or the header-writing step
\* while a worker is still running.
C17_JoinAll ==
    (Len(run.procs) > 1 /\ PastDispatch) =>
        \A i \in 1..Len(run.procs) : run.procs[i] # "running"

C17_Witness ==
    /\ Entered("concatenate")
    /\ run.pc = "assert"
    /\ run.procs = <<"done", "done", "done">>

ExpectedPhases ==
    IF Len(run.m.cmds) > 1
    THEN <<"convert", "dispatch", "concatenate", "header-write", "finalized">>
    ELSE <<"convert", "dispatch", "header-write", "finalized">>

IsPrefix(a, b) == Len(a) <= Len(b) /\ SubSeq(b, 1, Len(a)) = a

\* what the encoder processes of the call produce, in command order
RECURSIVE EncodedBy(_)
EncodedBy(cmds) ==
    IF cmds = <<>> THEN <<>>
    ELSE encoder_output(Head(cmds)) \o EncodedBy(Tail(cmds))

HeaderBytes(bitdepth, frame_size, num_frames, min_max) ==
    uchar_bytes(bitdepth)
    \o uint_bytes(frame_size[1])
    \o uint_bytes(frame_size[2])
    \o uint_bytes(num_frames)
    \o FrameInfoBytes(num_frames, min_max[1], min_max[2])

\* C18: every successful encode passes through Converting, Dispatching,
\* Concatenating (if and only if more than one command was dispatched),
\* HeaderWriting, Finalized in this order, none skipped; the header is
\* prefixed only after the complete inner bitstream exists at the final path,
\* and at Finalized the file at the returned path is SequenceInfo, num_frames
\* FrameInfo records, then the inner payload.
C18_PhaseOrder ==
    /\ IsPrefix(run.phases, ExpectedPhases)
    /\ run.pc \in {"header", "finalize"} =>
          /\ is_file(run.m.fs, FinalPath)
          /\ run.m.fs[FinalPath] = EncodedBy(run.m.cmds)
    /\ run.pc = "done" =>
          /\ run.phases = ExpectedPhases
          /\ run.m.ret.status = "returned"
          /\ run.m.fs[FinalPath] =
                HeaderBytes(run.m.config.output_bitdepth, run.m.ret.frame_size,
                            run.m.ret.nb_frames, run.m.config.min_max_dataset)
                \o EncodedBy(run.m.cmds)

C18_Witness ==
    /\ run.pc = "done"
    /\ Len(run.m.cmds) = 3
    /\ run.phases = <<"convert", "dispatch", "concatenate", "header-write", "finalized">>

\* C19: after a successful parallel encode the retention setting alone
\* decides the fate of the partial files: with stash_outputs true every
\* partial file passed to the concatenation step is deleted, with
\* stash_outputs false every one is left in place; the final bitstream file
\* exists in both cases.
C19_RetentionPolicy ==
    (run.pc = "done" /\ Len(run.m.cmds) > 1) =>
        /\ is_file(run.m.fs, FinalPath)
        /\ \A i \in 1..Len(run.m.cmds) :
              is_file(run.m.fs, run.m.cmds[i].BitstreamFile)
                  <=> ~run.m.config.stash_outputs

C19_Witness ==
    /\ run.pc = "done"
    /\ Len(run.m.cmds) = 3
    /\ run.m.config.stash_outputs
    /\ \A idx \in 0..2 : ~is_file(run.m.fs, worker_bitstream_path_of(FinalPath, idx))

\* with stash_outputs false the partial files stay
C19_KeptWhenNotStash ==
    /\ run.pc = "done"
    /\ ~run.m.config.stash_outputs
    /\ \A idx \in 0..2 : is_file(run.m.fs, worker_bitstream_path_of(FinalPath, idx))

C16_WorkerPaths ==
    nm_ret # <<>> =>
        \A i \in 1..nm_call.num_workers :
            /\ nm_ret[1].paths[i].parent = nm_call.bitstream_path.parent
            /\ nm_ret[1].paths[i].name =
                  nm_call.bitstream_path.stem \o Str_part
                  \o (IF i - 1 < 10 THEN <<48, 48, 48 + (i - 1)>>
                      ELSE <<48, 48 + ((i - 1) \div 10), 48 + ((i - 1) % 10)>>)
                  \o nm_call.bitstream_path.suffix
            /\ nm_ret[1].paths[i] # path_of(nm_call.bitstream_path)
            /\ nm_ret[1].paths[i] \in
                  glob_part_files({nm_ret[1].paths[i]}, nm_call.bitstream_path)
            /\ \A j \in 1..nm_call.num_workers :
                  i # j => nm_ret[1].paths[i] # nm_ret[1].paths[j]

C16_Witness ==
    /\ nm_ret # <<>>
    /\ nm_call.num_workers = 11
    /\ nm_call.bitstream_path.stem = <<97, 45, 112>>
    /\ nm_ret[1].paths[11].name
          = <<97, 45, 112, 45, 112, 97, 114, 116, 45, 48, 49, 48, 46, 98, 105, 110>>

(***************************************************************************)
(* SpecScale: the bit depths of one VTM.encode (remote_inference = False)  *)
(* and of the VTM.decode of the container it wrote: the depth of the       *)
(* normalization (lines 421-425), the depth written to and read from the   *)
(* header (494-504, 618-623), the sample size of the decoded yuv (650-653) *)
(* and the depth of the inverse normalization (662-670).                   *)
(***************************************************************************)
ScaleFrameSize == <<4, 6>>

InitScale ==
    /\ SplitIdle
    /\ HeaderIdle
    /\ CodecIdle
    /\ StepsIdle
    /\ NamesIdle
    /\ VariantsIdle
    /\ \E input_bitdepth \in 1..MaxBitDepth, output_bitdepth \in 0..MaxBitDepth :
          scale = [pc |-> "start",
                   input_bitdepth |-> input_bitdepth,
                   output_bitdepth |-> output_bitdepth,
                   norm_bitdepth |-> 0,
                   fd |-> EmptyStream,
                   bitdepth |-> 0,
                   decoder_bitdepth |-> 0,
                   inv_bitdepth |-> 0]

\* encode, lines 392 and 421-425: min_max_normalization(frames, minv, maxv,
\* bitdepth=input_bitdepth)
ScaleNormalize ==
    /\ scale.pc = "start"
    /\ scale' = [scale EXCEPT !.pc = "normalized",
                              !.norm_bitdepth = scale.input_bitdepth]
    /\ UNCHANGED <<split_vars, header_vars, codec_vars, step_vars, name_vars, variant_vars>>

\* encode, lines 393 and 491-506: sequence_info["bitdepth"] = output_bitdepth
ScaleWriteHeader ==
    /\ scale.pc = "normalized"
    /\ scale' = [scale EXCEPT
                    !.pc = "written",
                    !.fd = HeaderWriter_write_sequence_info(
                               EmptyStream,
                               [bitdepth |-> scale.output_bitdepth,
                                frame_size |-> ScaleFrameSize,
                                num_frames |-> 1])]
    /\ UNCHANGED <<split_vars, header_vars, codec_vars, step_vars, name_vars, variant_vars>>

\* decode, lines 618-636: bitdepth = sequence_info["bitdepth"], passed to the
\* decoder as its output bit depth
ScaleReadHeader ==
    /\ scale.pc = "written"
    /\ \E si \in {HeaderReader_read_sequence_info(HeaderReader_init, scale.fd)} :
          scale' = [scale EXCEPT !.pc = IF si.ok THEN "read" ELSE "raised",
                                 !.bitdepth = si.value.bitdepth,
                                 !.decoder_bitdepth = si.value.bitdepth]
    /\ UNCHANGED <<split_vars, header_vars, codec_vars, step_vars, name_vars, variant_vars>>

\* decode, lines 650-653: the frame count divides by
\* frame_width * frame_height * factor
ScaleReadFrames ==
    /\ scale.pc = "read"
    /\ scale' = [scale EXCEPT !.pc = IF factor_of(scale.bitdepth) = 0 THEN "raised"
                                     ELSE "frames"]
    /\ UNCHANGED <<split_vars, header_vars, codec_vars, step_vars, name_vars, variant_vars>>

\* decode, line 670: min_max_inv_normalization(rec_frames, minv, maxv,
\* bitdepth=10)
ScaleInverseNormalize ==
    /\ scale.pc = "frames"
    /\ scale' = [scale EXCEPT !.pc = "decoded", !.inv_bitdepth = 10]
    /\ UNCHANGED <<split_vars, header_vars, codec_vars, step_vars, name_vars, variant_vars>>

NextScale ==
    \/ ScaleNormalize
    \/ ScaleWriteHeader
    \/ ScaleReadHeader
    \/ ScaleReadFrames
    \/ ScaleInverseNormalize

SpecScale == InitScale /\ [][NextScale]_vars

(***************************************************************************)
(* Properties of the codec variants (checked under SpecVariants).          *)
(***************************************************************************)
IsStrList(v) ==
    /\ v.type = "list"
    /\ \A k \in 1..Len(v.items) : v.items[k].type = "str"

IsCommandList(v) ==
    /\ v.type = "list"
    /\ \A k \in 1..Len(v.items) : IsStrList(v.items[k])

\* C20: for every registered codec variant the call encode makes to
\* get_encode_cmd is accepted and returns a list of commands, each a list of
\* strings, so that len(cmds) > 1 counts commands.  (The parallel call to JM,
\* which JM rejects by design, and the parallel worker count are left out.)
C20_CapabilityContract ==
    (/\ gc_ret # <<>>
     /\ gc_call.keywords = EncodeCallKeywords
     /\ ~gc_call.config.parallel_encoding) =>
        /\ gc_ret[1].status = "returned"
        /\ IsCommandList(gc_ret[1].value[1].cmds)
        /\ gc_ret[1].value[1].dispatch = "run_cmdline"

GotCmd == gc_ret # <<>>

Bound == gc_call.keywords \subseteq Parameters(gc_call.variant)

\* C21: JM.get_encode_cmd fails with an assertion and returns no command when
\* parallel_encoding is true; with parallel_encoding false it returns exactly
\* one command, whatever nb_frames and intra_period are.
C21_JMRejectsParallel ==
    (GotCmd /\ Bound /\ gc_call.variant = "JM") =>
        IF gc_call.config.parallel_encoding
        THEN /\ gc_ret[1].status = "raised"
             /\ gc_ret[1].error = "AssertionError"
             /\ gc_ret[1].value = <<>>
        ELSE /\ gc_ret[1].status = "returned"
             /\ IsCommandList(gc_ret[1].value[1].cmds)
             /\ Len(gc_ret[1].value[1].cmds.items) = 1

C21_Witness ==
    /\ GotCmd
    /\ Bound
    /\ gc_call.variant = "JM"
    /\ gc_call.config.parallel_encoding
    /\ gc_call.nb_frames > gc_call.config.intra_period + 1
    /\ gc_ret[1].status = "raised"

Constructed == gc_call.adapter = "constructed"

\* what VTM.__init__ does reject: a missing encoder, decoder or config file,
\* a missing concatenation executable under parallel encoding, an unknown
\* dataset
C22_PathsAndDatasetChecked ==
    Constructed =>
        /\ gc_call.missing \cap {"encoder_exe", "decoder_exe", "cfg_file"} = {}
        /\ gc_call.config.parallel_encoding => "parcat_exe" \notin gc_call.missing
        /\ gc_call.dataset_known

\* C22: configuration errors fail at construction time: no adapter is
\* constructed with a missing encoder, decoder or config file, with parallel
\* encoding and a missing concatenation executable, with an unknown dataset,
\* or with parallel encoding on JM.
C22_ConfigurationErrorsFailAtConstruction ==
    Constructed =>
        /\ gc_call.missing \cap {"encoder_exe", "decoder_exe", "cfg_file"} = {}
        /\ gc_call.config.parallel_encoding => "parcat_exe" \notin gc_call.missing
        /\ gc_call.dataset_known
        /\ ~(gc_call.variant = "JM" /\ gc_call.config.parallel_encoding)

\* a get_encode_cmd call of VTM or HM that was bound to its parameters
CalledVTMorHM == GotCmd /\ Bound /\ gc_call.variant \in {"VTM", "HM"}

\* the condition of the parallel branch (negation of lines 278, 794)
ParallelBranch ==
    /\ gc_call.config.parallel_encoding
    /\ gc_call.nb_frames > gc_call.config.intra_period + 1

\* round(nb_frames / intra_period + 0.5), Python's round-half-to-even
RoundedWorkers ==
    round_half_even(2 * gc_call.nb_frames + gc_call.config.intra_period,
                    2 * gc_call.config.intra_period)

ReturnedCmds == gc_ret[1].value[1].cmds.items

HasArg(cmd, text) == \E k \in 1..Len(cmd.items) : cmd.items[k].text = text

ArgValue(cmd, text) ==
    cmd.items[CHOOSE k \in 1..Len(cmd.items) : cmd.items[k].text = text].value[1]

\* the arguments of a command before its last n
BaseOf(cmd, n) == SubSeq(cmd.items, 1, Len(cmd.items) - n)

\* C24: for every nb_frames > intra_period + 1 (intra_period >= 1) the worker
\* count round(nb_frames / intra_period + 0.5) is accepted by the work
\* splitter, and one encode command per worker is built.
C24_RoundedWorkerCountAccepted ==
    (CalledVTMorHM /\ ParallelBranch) =>
        /\ gc_ret[1].status = "returned"
        /\ Len(ReturnedCmds) = RoundedWorkers

\* the single command of the sequential branch
IsSingleCommand ==
    /\ gc_ret[1].status = "returned"
    /\ Len(ReturnedCmds) = 1
    /\ ArgValue(ReturnedCmds[1], "--BitstreamFile") = gc_call.bitstream_path
    /\ ArgValue(ReturnedCmds[1], "--FramesToBeEncoded") = gc_call.nb_frames
    /\ ~HasArg(ReturnedCmds[1], "--FrameSkip")

\* one command per WorkAssignment of work, in worker-index order
IsPerWorker(work) ==
    /\ gc_ret[1].status = "returned"
    /\ Len(ReturnedCmds) = Len(work.offsets)
    /\ \A i \in 1..Len(ReturnedCmds) :
          /\ ArgValue(ReturnedCmds[i], "--FrameSkip") = work.offsets[i]
          /\ ArgValue(ReturnedCmds[i], "--FramesToBeEncoded") = work.counts[i]
          /\ ArgValue(ReturnedCmds[i], "--BitstreamFile") =
                 worker_bitstream_path_of(gc_call.bitstream_path, i - 1)
          /\ BaseOf(ReturnedCmds[i], 3) = BaseOf(ReturnedCmds[1], 3)

\* the WorkAssignments of the call: the splitter on the rounded worker count
WorkOfCall ==
    _distribute_parallel_work(gc_call.nb_frames, RoundedWorkers,
                              gc_call.config.intra_period)

C28_ParallelBranchConcatenates ==
    (CalledVTMorHM /\ ParallelBranch /\ gc_ret[1].status = "returned") =>
        /\ Len(ReturnedCmds) >= 2
        /\ gc_ret[1].value[1].dispatch = "run_cmdlines_parallel"
        /\ gc_ret[1].value[1].concatenates

C28_Witness ==
    /\ CalledVTMorHM
    /\ gc_call.variant = "VTM"
    /\ ParallelBranch
    /\ gc_ret[1].status = "returned"
    /\ Len(ReturnedCmds) = 2
    /\ ArgValue(ReturnedCmds[1], "--BitstreamFile").tail = "-part.bin"
    /\ gc_ret[1].value[1].concatenates

(***************************************************************************)
(* Properties of the bit depths (checked under SpecScale).                 *)
(***************************************************************************)
\* C27: the bit depth decode uses to inverse-normalize the reconstructed
\* frames equals the bit depth encode used to normalize them (the configured
\* input_bitdepth), for every configured bit depth in 1..16.
C27_SameScaleBothWays ==
    scale.pc = "decoded" =>
        /\ scale.norm_bitdepth = scale.input_bitdepth
        /\ scale.inv_bitdepth = scale.norm_bitdepth

(***************************************************************************)
(* Uniqueness of the worker count (checked under SpecSplit).               *)
(***************************************************************************)
\* the worker counts the splitter accepts for the frames and period of the call
AcceptedCounts ==
    {w \in 0..(MaxWorkers + 1) :
        _distribute_parallel_work(split_call.num_frames, w,
                                  split_call.intra_period).status = "returned"}

\* num_frames = W * intra_period + 1 for some W >= 1
OneFrameBeyondPeriods ==
    /\ split_call.num_frames > 1
    /\ (split_call.num_frames - 1) % split_call.intra_period = 0

\* C30 as stated: for every (num_frames, intra_period) at most one num_workers
\* is accepted.
C30_AcceptedCountUnique ==
    Returned => AcceptedCounts = {split_call.num_workers}

\* C30: the splitter accepts one worker count, except when num_frames is
\* W * intra_period + 1 (W >= 1), where it accepts both W and W + 1 (the
\* last of the W + 1 chunks being the single boundary frame); every other
\* worker count is rejected.
C30_AcceptedCounts ==
    Returned =>
        AcceptedCounts =
            IF OneFrameBeyondPeriods
            THEN {(split_call.num_frames - 1) \div split_call.intra_period,
                  ((split_call.num_frames - 1) \div split_call.intra_period) + 1}
                 \cap (0..(MaxWorkers + 1))
            ELSE {split_call.num_workers}

C30_Witness ==
    /\ Returned
    /\ split_call.num_frames = 5
    /\ split_call.intra_period = 2
    /\ split_call.num_workers = 3
    /\ split_ret.counts = <<3, 3, 1>>
    /\ AcceptedCounts = {2, 3}

====
